---- MODULE Spec2Model ----
(***************************************************************************)
(* Model of the SDR delivery pipeline:                                     *)
(*   - the shared-memory FFT ring (shared_fft_buffer.hpp): one producer,   *)
(*     independent consumers, the region's open/attach protocol;           *)
(*   - the asynchronous block writer (iq_recorder.cpp, AsyncFileWriter);   *)
(*   - the control plane of the streamer (sdr_streamer.cpp): the control   *)
(*     socket thread, its clients, the stop flag and the acquisition loop. *)
(*                                                                         *)
(* The specifications share the variables:                                 *)
(*   Spec       the ring in use: the producer publishes, consumers attach, *)
(*              call try_read and read the slot they were handed;          *)
(*   SpecOpen   the region's life cycle: open_producer / open_consumer on  *)
(*              a shared-memory name that may already exist;               *)
(*   SpecWriter the AsyncFileWriter: write() callers, the writer thread    *)
(*              and the destructor;                                        *)
(*   SpecCtl    the streamer's control thread and its clients;             *)
(*   SpecAcq    the streamer's acquisition loop beside the control thread; *)
(*   FairSpecAcq  SpecAcq with the acquisition loop scheduled fairly;      *)
(*   SpecHw     SpecAcq on runs long enough for the periodic status report;*)
(*   SpecMain   the streamer's main from its first line to its return;     *)
(*   SpecFft    the power-spectrum loop of one cycle, for every FFT size;  *)
(*   SpecLoop   the streamer's main from the creation of its output to its *)
(*              return, on long runs and with a front end that fails;      *)
(*   SpecRec    the recorder's receive loop (iq_recorder.cpp);             *)
(*   SpecClose  the ring in use until its producer is destroyed.           *)
(*                                                                         *)
(* Widths: write_idx and the slot's frame_number are uint64, the loop's    *)
(* frame_count is a uint32. The 32-bit counter is modelled CounterBits     *)
(* wide, so that SpecLoop can run past its wrap-around; the other          *)
(* specifications stay below it, and below 2^64 everywhere.                *)
(***************************************************************************)
EXTENDS Integers, Sequences, FiniteSets, TLC

\* ------------------------------------------------------------------ bounds
RingSize   == 2    \* ring_size of the region used by Spec
MaxFrames  == 4    \* publishes the producer performs in Spec
MaxReads   == 3    \* frames one consumer hands to its caller in Spec
PoolSize   == 2    \* blocks in the writer's pool (MAX_QUEUE_SIZE, 64 in the source)
BlockSize  == 2    \* samples per block (BLOCK_SIZE, 65536 in the source)
MaxCalls   == 2    \* write() calls the receiver thread makes in SpecWriter
MaxCmds    == 2    \* requests the control clients send in SpecCtl, SpecAcq
MaxConns   == 1    \* connections made to the control socket
MaxCycles  == 2    \* frames the acquisition loop emits in SpecAcq
CounterBits == 2   \* width given to the loop's uint32 frame counter
MaxFftSize == 13   \* largest --fft-size in SpecFft

\* ------------------------------------------------------- program constants
SHM_MAGIC        == 1396986438   \* 0x53445246 "SDRF"
SHM_VERSION      == 1
HeaderBytes      == 64           \* sizeof(SharedFFTHeader)
FrameHeaderBytes == 44           \* sizeof(FFTFrameHeader), packed
FloatBytes       == 4            \* sizeof(float)

\* sdr_streamer.cpp, in MHz (frequency, rate), dB (gain) and kHz (bandwidth)
B210_MIN_FREQ    == 50
B210_MAX_FREQ    == 6000
B210_MIN_RX_GAIN == 0
B210_MAX_RX_GAIN == 76
B210_MIN_BW      == 200
B210_MAX_BW      == 56000
DefaultFreq      == 915
DefaultGain      == 50
DefaultBw        == 10000
DefaultRate      == 10
\* ControlCommand::Type
SET_FREQUENCY    == 1
SET_SAMPLE_RATE  == 2
SET_GAIN         == 3
SET_BANDWIDTH    == 4
GET_STATUS       == 10
PING             == 11
STOP             == 255
UnknownType      == 0

Consumers == {"c1", "c2"}

\* Values a region found under the shared-memory name may carry.
Magics     == {SHM_MAGIC, 0}
Versions   == {SHM_VERSION, SHM_VERSION + 1}
RingSizes  == {RingSize, RingSize + 1}
FftSizes   == {1, 2}
Channels   == {1, 2}

NoFrame == -1      \* nullptr returned by try_read / payload of no frame

Blocks   == 1 .. PoolSize
NoBlock  == 0      \* an empty unique_ptr<Block>
\* Buffer lengths the receiver passes to write(): up to one sample more than
\* the whole pool holds.
MaxCount == PoolSize * BlockSize + 1

VARIABLES
    \* ---- the shared-memory object behind SHM_NAME
    shm_exists,      \* the name is linked
    shm_size,        \* its size in bytes (ftruncate)
    hdr,             \* SharedFFTHeader fields other than write_idx
    write_idx,       \* SharedFFTHeader::write_idx
    slots,           \* slot -> [frame_number, data]: FFTFrameHeader + spectrum
    \* ---- SharedFFTProducer and the acquisition loop driving it
    prod,            \* "none" | "open" | "failed" | "closed"
    ppc,             \* position inside publish_multi
    p_ring_size,     \* ring_size_
    p_fft_size,      \* fft_size_
    p_channel_count, \* channel_count_
    p_write_idx,     \* publish_multi's local write_idx
    frame_count,     \* the loop's frame counter, passed as frame_num
    \* ---- SharedFFTConsumer objects and their callers
    cpc,             \* c -> "detached" | "failed" | "idle" | "hdr" | "data"
    last_read_idx,   \* c -> last_read_idx_
    ret,             \* c -> "uncalled" | "nodata" | "frame": last try_read
    frame_ptr,       \* c -> slot returned by the last try_read, or NoFrame
    rd_fn,           \* c -> frame_number the caller copied from that slot
    got,             \* c -> frames the caller has taken, in order
    attach_idx,      \* c -> write_idx loaded by the constructor
    drops_reported,  \* c -> dropped frames try_read has reported to its caller
    \* ---- AsyncFileWriter
    running,         \* running_
    free_blocks,     \* free_blocks_: queue of blocks
    write_queue,     \* write_queue_: queue of blocks
    blk,             \* block -> the samples it holds (count = its length)
    free_mutex,      \* free_mutex_: "none" | "main" | "writer"
    queue_mutex,     \* queue_mutex_: "none" | "main" | "writer"
    file,            \* samples appended to the output file, in order
    total_written,   \* total_written_
    dropped_blocks,  \* dropped_blocks_
    \* ---- the receiver (main) thread: calls write(), then destroys the writer
    mpc,             \* its position
    count,           \* write()'s count argument
    written,         \* write()'s local written
    m_block,         \* write()'s local block, or NoBlock
    next_sample,     \* first sample of the caller's next buffer
    calls,           \* write() calls made
    dropped_at_call, \* dropped_blocks_ when the current write() call began
    last_return,     \* the last write() call: what it was asked and returned
    queued_total,    \* sum of the values write() has returned
    \* ---- the writer thread (writer_loop)
    tpc,             \* its position
    t_block,         \* writer_loop's local block, or NoBlock
    \* ---- sdr_streamer: process-wide state and the radio front end
    stop_signal_called,   \* the stop flag
    current_frequency,    \* atomics read by the acquisition loop
    current_gain,
    current_sample_rate,
    usrp,            \* the front end's settings: rx_freq, rx_gain, rx_bandwidth, rx_rate
    usrp_called,     \* a set_rx_* call was made for the command being answered
    rx_streaming,    \* the front end is yielding blocks
    \* ---- control_socket_thread and its client
    srv_pc,          \* "unstarted" | "poll" | "inner" | "recv" | "handle" |
                     \* "send" | "done"
    conn,            \* "none" | "pending" | "open" | "hup": the client's connection
    inbox,           \* requests written by the client, not yet read
    cmd,             \* the thread's local ControlCommand
    resp,            \* the thread's local ControlResponse
    reqs_read,       \* requests read whole on this connection, by number
    replies,         \* responses sent on this connection, in order
    sent,            \* requests clients have written so far
    conns,           \* connections made so far
    \* ---- the acquisition loop of main
    apc,             \* "idle" | "configuring" | "failed" |
                     \* "setup" | "check" | "recv" | "timed_out" | "overflowed" |
                     \* "rx_error" | "short_block" | "emit" | "publish" |
                     \* "status" | "draining" | "cleanup" | "stopped"
    frames_at_stop,  \* frame_count when the stop flag was first set, or NoFrame
    shm_mode,        \* shared-memory output is selected (--shm)
    curr_freq,       \* the loop's local curr_freq
    emitted,         \* the frames the loop has put out, in order
    freq_held,       \* the values current_frequency has held so far
    plans,           \* the FFT plans: "none" | "made" | "destroyed"
    fft_size,        \* fft_size (--fft-size)
    bin_i,           \* the index i of the power-spectrum loop (line 655)
    power_db,        \* power_db[0], as the FFT bin each entry was computed from
    \* ---- iq_recorder: the receive loop of main
    rpc,             \* "check" | "recv" | "timed_out" | "overflowed" |
                     \* "rx_error" | "write" | "draining"
    overflow_count,  \* overflow_count
    samples_received \* samples_received, in blocks

shmVars  == <<shm_exists, shm_size, hdr, write_idx, slots>>
prodVars == <<prod, ppc, p_ring_size, p_fft_size, p_channel_count,
              p_write_idx, frame_count>>
consVars == <<cpc, last_read_idx, ret, frame_ptr, rd_fn, got, attach_idx,
              drops_reported>>
wrVars   == <<running, free_blocks, write_queue, blk, free_mutex, queue_mutex,
              file, total_written, dropped_blocks, mpc, count, written,
              m_block, next_sample, calls, dropped_at_call, last_return, queued_total,
              tpc, t_block>>
ringAll  == <<shmVars, prodVars, consVars>>
fftVars  == <<fft_size, bin_i, power_db>>
acqVars  == <<shm_mode, curr_freq, emitted, freq_held, plans, fftVars>>
recVars  == <<rpc, overflow_count, samples_received>>
ctlVars  == <<stop_signal_called, current_frequency, current_gain,
              current_sample_rate, usrp, usrp_called, rx_streaming, srv_pc, conn,
              inbox, cmd, resp, reqs_read, replies, sent, conns, apc,
              frames_at_stop, acqVars, recVars>>
vars == <<shmVars, prodVars, consVars, wrVars, ctlVars>>

\* ------------------------------------------------------------------ sizes
FrameSize(fs, cc) == FrameHeaderBytes + fs * cc * FloatBytes

TotalSize(rs, fs, cc) == HeaderBytes + rs * FrameSize(fs, cc)

\* The header as the producer's constructor leaves it.
InitHeader(rs, fs, cc) ==
    [magic |-> SHM_MAGIC, version |-> SHM_VERSION, ring_size |-> rs,
     fft_size |-> fs, channel_count |-> cc, frame_size |-> FrameSize(fs, cc),
     read_idx |-> 0, gps_locked |-> 0, streaming |-> 1]

ZeroSlot == [frame_number |-> 0, data |-> NoFrame]

\* ------------------------------------------------- AsyncFileWriter: state
\* The state the constructor leaves (lines 57-75): file open and empty, the
\* whole pool free, the writer thread started at the top of writer_loop.
WriterInit ==
    /\ running = TRUE
    /\ free_blocks = [i \in 1 .. PoolSize |-> i]
    /\ write_queue = <<>>
    /\ blk = [b \in Blocks |-> <<>>]
    /\ free_mutex = "none"
    /\ queue_mutex = "none"
    /\ file = <<>>
    /\ total_written = 0
    /\ dropped_blocks = 0
    /\ mpc = "m_idle"
    /\ count = 0
    /\ written = 0
    /\ m_block = NoBlock
    /\ next_sample = 0
    /\ calls = 0
    /\ dropped_at_call = 0
    /\ last_return = [count |-> 0, written |-> 0, why |-> "none"]
    /\ queued_total = 0
    /\ tpc = "t_loop"
    /\ t_block = NoBlock

\* ------------------------------------------------- sdr_streamer: state
NoCmd  == [seq |-> 0, type |-> UnknownType, value |-> 0, complete |-> TRUE]
NoResp == [success |-> 0, actual_value |-> 0, message |-> ""]

\* The state main has built when it turns to its output (lines 519-587): the
\* front end configured and streaming, the atomics holding its actual
\* settings, the control thread at its poll, the signal handler installed.
\* The recorder is a process of its own, at the top of its receive loop
\* (iq_recorder.cpp lines 293-305).
ProcessInit ==
    /\ stop_signal_called = FALSE
    /\ usrp = [rx_freq |-> DefaultFreq, rx_gain |-> DefaultGain,
               rx_bandwidth |-> DefaultBw, rx_rate |-> DefaultRate]
    /\ current_frequency = DefaultFreq
    /\ current_gain = DefaultGain
    /\ current_sample_rate = DefaultRate
    /\ usrp_called = FALSE
    /\ rx_streaming = TRUE
    /\ srv_pc = "poll"
    /\ conn = "none"
    /\ inbox = <<>>
    /\ cmd = NoCmd
    /\ resp = NoResp
    /\ reqs_read = <<>>
    /\ replies = <<>>
    /\ sent = 0
    /\ conns = 0
    /\ frames_at_stop = NoFrame
    /\ curr_freq = 0
    /\ emitted = <<>>
    /\ freq_held = {DefaultFreq}
    /\ plans = "made"
    /\ rpc = "check"
    /\ overflow_count = 0
    /\ samples_received = 0

\* The spectrum loop is not looked into: one bin, nothing computed yet.
FftIdle ==
    /\ fft_size = 1
    /\ bin_i = 0
    /\ power_db = <<>>

\* The acquisition loop about to start (line 615), writing to stdout.
CtlInit ==
    /\ ProcessInit
    /\ FftIdle
    /\ apc = "check"
    /\ shm_mode = FALSE

Min(a, b) == IF a < b THEN a ELSE b

\* The n samples of the caller's buffer that start at sample number `from`.
Samples(from, n) == [i \in 1 .. n |-> from + i - 1]

\* ----------------------------------------- AsyncFileWriter::write, 91-131
\* The receiver loop (lines 307-328) hands its buffer to write().
StartWrite(n) ==
    /\ mpc = "m_idle"
    /\ calls < MaxCalls
    /\ count' = n
    /\ written' = 0
    /\ calls' = calls + 1
    /\ dropped_at_call' = dropped_blocks
    /\ mpc' = "w_loop"
    /\ UNCHANGED <<running, free_blocks, write_queue, blk, free_mutex,
                   queue_mutex, file, total_written, dropped_blocks, m_block,
                   next_sample, last_return, queued_total, tpc, t_block>>
    /\ UNCHANGED <<ringAll, ctlVars>>

\* write() returns `written`; the caller goes on to its next buffer.
Return(why) ==
    /\ last_return' = [count |-> count, written |-> written, why |-> why]
    /\ queued_total' = queued_total + written
    /\ next_sample' = next_sample + count
    /\ mpc' = "m_idle"

\* Line 94: while (written < count && running_); line 130 when it ends.
W_Loop ==
    /\ mpc = "w_loop"
    /\ IF written < count /\ running
       THEN /\ mpc' = "w_pop"
            /\ UNCHANGED <<last_return, queued_total, next_sample>>
       ELSE Return(IF written < count THEN "stopped" ELSE "done")
    /\ UNCHANGED <<running, free_blocks, write_queue, blk, free_mutex,
                   queue_mutex, file, total_written, dropped_blocks, count,
                   written, m_block, calls, dropped_at_call, tpc, t_block>>
    /\ UNCHANGED <<ringAll, ctlVars>>

\* front() without the pop(): the block stays in the queue it was taken from.
PoppedFrontOnly(q) == q

\* Lines 100-101 and 162-163: std::move(queue.front()); queue.pop().
Popped(q) == Tail(q)

\* write() with a pop that waits until the pool has a block to give.
MayPopWaitsForBlock == free_mutex = "none" /\ free_blocks # <<>>

\* Line 98: the lock_guard on free_mutex_ is all the pop waits for.
MayPop == free_mutex = "none"

\* Lines 98-102: under free_mutex_, take the front free block if there is one.
W_Pop ==
    /\ mpc = "w_pop"
    /\ MayPop
    /\ free_mutex' = "main"
    /\ IF free_blocks # <<>>
       THEN /\ m_block' = Head(free_blocks)
            /\ free_blocks' = Popped(free_blocks)
       ELSE /\ m_block' = NoBlock
            /\ UNCHANGED free_blocks
    /\ mpc' = "w_unlock_free"
    /\ UNCHANGED <<running, write_queue, blk, queue_mutex, file, total_written,
                   dropped_blocks, count, written, next_sample, calls, dropped_at_call,
                   last_return, queued_total, tpc, t_block>>
    /\ UNCHANGED <<ringAll, ctlVars>>

\* write() with the free-list lock taken for the whole iteration instead of
\* the inner scope of lines 97-103: it is still held at the push.
W_FillHoldsFree ==
    /\ mpc = "w_unlock_free"
    /\ IF m_block = NoBlock
       THEN /\ dropped_blocks' = dropped_blocks + 1
            /\ free_mutex' = "none"
            /\ Return("pool_empty")
            /\ UNCHANGED <<blk, written>>
       ELSE /\ blk' = [blk EXCEPT ![m_block] =
                         Samples(next_sample + written,
                                 Min(count - written, BlockSize))]
            /\ written' = written + Min(count - written, BlockSize)
            /\ mpc' = "w_push"
            /\ UNCHANGED <<free_mutex, dropped_blocks, last_return,
                           queued_total, next_sample>>
    /\ UNCHANGED <<running, free_blocks, write_queue, queue_mutex, file,
                   total_written, count, m_block, calls, dropped_at_call, tpc, t_block>>
    /\ UNCHANGED <<ringAll, ctlVars>>

\* Lines 103-120: release free_mutex_; without a block count the drop and
\* return what was queued so far, with one fill it from the caller's buffer.
W_Fill ==
    /\ mpc = "w_unlock_free"
    /\ free_mutex' = "none"
    /\ IF m_block = NoBlock
       THEN /\ dropped_blocks' = dropped_blocks + 1
            /\ Return("pool_empty")
            /\ UNCHANGED <<blk, written>>
       ELSE /\ blk' = [blk EXCEPT ![m_block] =
                         Samples(next_sample + written,
                                 Min(count - written, BlockSize))]
            /\ written' = written + Min(count - written, BlockSize)
            /\ mpc' = "w_push"
            /\ UNCHANGED <<dropped_blocks, last_return, queued_total,
                           next_sample>>
    /\ UNCHANGED <<running, free_blocks, write_queue, queue_mutex, file,
                   total_written, count, m_block, calls, dropped_at_call, tpc, t_block>>
    /\ UNCHANGED <<ringAll, ctlVars>>

\* Lines 123-125: under queue_mutex_, push the block.
W_Push ==
    /\ mpc = "w_push"
    /\ queue_mutex = "none"
    /\ queue_mutex' = "main"
    /\ write_queue' = Append(write_queue, m_block)
    /\ m_block' = NoBlock
    /\ mpc' = "w_unlock_q"
    /\ UNCHANGED <<running, free_blocks, blk, free_mutex, file, total_written,
                   dropped_blocks, count, written, next_sample, calls, dropped_at_call,
                   last_return, queued_total, tpc, t_block>>
    /\ UNCHANGED <<ringAll, ctlVars>>

\* Line 126: the lock_guard's scope ends.
W_UnlockQ ==
    /\ mpc = "w_unlock_q"
    /\ queue_mutex' = "none"
    /\ mpc' = "w_notify"
    /\ UNCHANGED <<running, free_blocks, write_queue, blk, free_mutex, file,
                   total_written, dropped_blocks, count, written, m_block,
                   next_sample, calls, dropped_at_call, last_return, queued_total, tpc, t_block>>
    /\ UNCHANGED <<ringAll, ctlVars>>

\* notify_one on queue_cv_: wakes the writer thread if it is blocked in wait.
Notified(pc) == IF pc = "t_blocked" THEN "t_woken" ELSE pc

\* Line 127.
W_Notify ==
    /\ mpc = "w_notify"
    /\ tpc' = Notified(tpc)
    /\ mpc' = "w_loop"
    /\ UNCHANGED <<running, free_blocks, write_queue, blk, free_mutex,
                   queue_mutex, file, total_written, dropped_blocks, count,
                   written, m_block, next_sample, calls, dropped_at_call, last_return,
                   queued_total, t_block>>
    /\ UNCHANGED <<ringAll, ctlVars>>

WriteStep == W_Loop \/ W_Pop \/ W_Fill \/ W_Push \/ W_UnlockQ \/ W_Notify

\* ------------------------------------------------- writer_loop, 147-182
\* A writer_loop that stops as soon as running_ is false, queue drained or not.
KeepWritingWhileRunning(r, q) == r

\* Line 148: while (running_ || !write_queue_.empty()), read without a lock.
\* The queue is looked at only when running_ is false, and running_ becomes
\* false in the destructor, which the thread that calls write() runs.
KeepWriting(r, q) == r \/ q # <<>>

T_Loop ==
    /\ tpc = "t_loop"
    /\ tpc' = IF KeepWriting(running, write_queue) THEN "t_lock" ELSE "t_flush"
    /\ UNCHANGED <<running, free_blocks, write_queue, blk, free_mutex,
                   queue_mutex, file, total_written, dropped_blocks, mpc,
                   count, written, m_block, next_sample, calls, dropped_at_call, last_return,
                   queued_total, t_block>>
    /\ UNCHANGED <<ringAll, ctlVars>>

\* Line 153: unique_lock on queue_mutex_; also the re-lock when wait wakes.
T_Lock ==
    /\ tpc \in {"t_lock", "t_woken"}
    /\ queue_mutex = "none"
    /\ queue_mutex' = "writer"
    /\ tpc' = "t_pred"
    /\ UNCHANGED <<running, free_blocks, write_queue, blk, free_mutex, file,
                   total_written, dropped_blocks, mpc, count, written, m_block,
                   next_sample, calls, dropped_at_call, last_return, queued_total, t_block>>
    /\ UNCHANGED <<ringAll, ctlVars>>

\* Lines 154-156: wait's predicate, evaluated with the mutex held.
T_Pred ==
    /\ tpc = "t_pred"
    /\ tpc' = IF write_queue # <<>> \/ ~running THEN "t_deq" ELSE "t_sleep"
    /\ UNCHANGED <<running, free_blocks, write_queue, blk, free_mutex,
                   queue_mutex, file, total_written, dropped_blocks, mpc,
                   count, written, m_block, next_sample, calls, dropped_at_call, last_return,
                   queued_total, t_block>>
    /\ UNCHANGED <<ringAll, ctlVars>>

\* wait(lock): release the mutex and block, in one step.
T_Sleep ==
    /\ tpc = "t_sleep"
    /\ queue_mutex' = "none"
    /\ tpc' = "t_blocked"
    /\ UNCHANGED <<running, free_blocks, write_queue, blk, free_mutex, file,
                   total_written, dropped_blocks, mpc, count, written, m_block,
                   next_sample, calls, dropped_at_call, last_return, queued_total, t_block>>
    /\ UNCHANGED <<ringAll, ctlVars>>

\* A condition variable may wake without a notify.
T_Spurious ==
    /\ tpc = "t_blocked"
    /\ tpc' = "t_woken"
    /\ UNCHANGED <<running, free_blocks, write_queue, blk, free_mutex,
                   queue_mutex, file, total_written, dropped_blocks, mpc,
                   count, written, m_block, next_sample, calls, dropped_at_call, last_return,
                   queued_total, t_block>>
    /\ UNCHANGED <<ringAll, ctlVars>>

\* A writer_loop that takes the block pushed last (back() and a pop from
\* the back) instead of the front one.
T_DeqNewest ==
    /\ tpc = "t_deq"
    /\ queue_mutex' = "none"
    /\ IF write_queue = <<>>
       THEN /\ tpc' = "t_loop"
            /\ UNCHANGED <<write_queue, t_block>>
       ELSE /\ t_block' = write_queue[Len(write_queue)]
            /\ write_queue' = SubSeq(write_queue, 1, Len(write_queue) - 1)
            /\ tpc' = "t_write"
    /\ UNCHANGED <<running, free_blocks, blk, free_mutex, file, total_written,
                   dropped_blocks, mpc, count, written, m_block, next_sample,
                   calls, dropped_at_call, last_return, queued_total>>
    /\ UNCHANGED <<ringAll, ctlVars>>

\* Lines 158-164: with the mutex held, `continue` on an empty queue, else
\* take the front block; the unique_lock's scope ends either way.
T_Deq ==
    /\ tpc = "t_deq"
    /\ queue_mutex' = "none"
    /\ IF write_queue = <<>>
       THEN /\ tpc' = "t_loop"
            /\ UNCHANGED <<write_queue, t_block>>
       ELSE /\ t_block' = Head(write_queue)
            /\ write_queue' = Popped(write_queue)
            /\ tpc' = "t_write"
    /\ UNCHANGED <<running, free_blocks, blk, free_mutex, file, total_written,
                   dropped_blocks, mpc, count, written, m_block, next_sample,
                   calls, dropped_at_call, last_return, queued_total>>
    /\ UNCHANGED <<ringAll, ctlVars>>

\* Lines 167-171: append the block's count samples to the file.
T_Write ==
    /\ tpc = "t_write"
    /\ IF Len(blk[t_block]) > 0
       THEN /\ file' = file \o blk[t_block]
            /\ total_written' = total_written + Len(blk[t_block])
       ELSE UNCHANGED <<file, total_written>>
    /\ tpc' = "t_ret"
    /\ UNCHANGED <<running, free_blocks, write_queue, blk, free_mutex,
                   queue_mutex, dropped_blocks, mpc, count, written, m_block,
                   next_sample, calls, dropped_at_call, last_return, queued_total, t_block>>
    /\ UNCHANGED <<ringAll, ctlVars>>

\* Lines 174-176: under free_mutex_, give the block back to the pool.
T_Ret ==
    /\ tpc = "t_ret"
    /\ free_mutex = "none"
    /\ free_mutex' = "writer"
    /\ free_blocks' = Append(free_blocks, t_block)
    /\ t_block' = NoBlock
    /\ tpc' = "t_unlock_free"
    /\ UNCHANGED <<running, write_queue, blk, queue_mutex, file, total_written,
                   dropped_blocks, mpc, count, written, m_block, next_sample,
                   calls, dropped_at_call, last_return, queued_total>>
    /\ UNCHANGED <<ringAll, ctlVars>>

\* Line 177: the lock_guard's scope ends; back to the loop test.
T_UnlockFree ==
    /\ tpc = "t_unlock_free"
    /\ free_mutex' = "none"
    /\ tpc' = "t_loop"
    /\ UNCHANGED <<running, free_blocks, write_queue, blk, queue_mutex, file,
                   total_written, dropped_blocks, mpc, count, written, m_block,
                   next_sample, calls, dropped_at_call, last_return, queued_total, t_block>>
    /\ UNCHANGED <<ringAll, ctlVars>>

\* Line 181: flush; the thread function returns.
T_Flush ==
    /\ tpc = "t_flush"
    /\ tpc' = "t_done"
    /\ UNCHANGED <<running, free_blocks, write_queue, blk, free_mutex,
                   queue_mutex, file, total_written, dropped_blocks, mpc,
                   count, written, m_block, next_sample, calls, dropped_at_call, last_return,
                   queued_total, t_block>>
    /\ UNCHANGED <<ringAll, ctlVars>>

WriterStep ==
    \/ T_Loop \/ T_Lock \/ T_Pred \/ T_Sleep \/ T_Spurious
    \/ T_Deq \/ T_Write \/ T_Ret \/ T_UnlockFree \/ T_Flush

\* ------------------------------------------- ~AsyncFileWriter, 77-87
\* Line 79: running_ = false (writer.reset(), iq_recorder.cpp line 350).
D_Stop ==
    /\ mpc = "m_idle"
    /\ running' = FALSE
    /\ mpc' = "d_notify"
    /\ UNCHANGED <<free_blocks, write_queue, blk, free_mutex, queue_mutex,
                   file, total_written, dropped_blocks, count, written,
                   m_block, next_sample, calls, dropped_at_call, last_return, queued_total,
                   tpc, t_block>>
    /\ UNCHANGED <<ringAll, ctlVars>>

\* Line 80: queue_cv_.notify_one().
D_Notify ==
    /\ mpc = "d_notify"
    /\ tpc' = Notified(tpc)
    /\ mpc' = "d_join"
    /\ UNCHANGED <<running, free_blocks, write_queue, blk, free_mutex,
                   queue_mutex, file, total_written, dropped_blocks, count,
                   written, m_block, next_sample, calls, dropped_at_call, last_return,
                   queued_total, t_block>>
    /\ UNCHANGED <<ringAll, ctlVars>>

\* Lines 82-86: join returns once writer_loop has returned; close the file.
D_Join ==
    /\ mpc = "d_join"
    /\ tpc = "t_done"
    /\ mpc' = "destroyed"
    /\ UNCHANGED <<running, free_blocks, write_queue, blk, free_mutex,
                   queue_mutex, file, total_written, dropped_blocks, count,
                   written, m_block, next_sample, calls, dropped_at_call, last_return,
                   queued_total, tpc, t_block>>
    /\ UNCHANGED <<ringAll, ctlVars>>

\* ------------------------------------------------------------ SpecWriter
\* The ring is not in use: no producer, no region.
RingUnused ==
    /\ shm_exists = FALSE
    /\ shm_size = 0
    /\ hdr = [magic |-> 0, version |-> 0, ring_size |-> 0, fft_size |-> 0,
              channel_count |-> 0, frame_size |-> 0, read_idx |-> 0,
              gps_locked |-> 0, streaming |-> 0]
    /\ write_idx = 0
    /\ slots = [i \in 0 .. RingSize - 1 |-> ZeroSlot]
    /\ prod = "none"
    /\ ppc = "idle"
    /\ p_ring_size = 0
    /\ p_fft_size = 0
    /\ p_channel_count = 0
    /\ p_write_idx = 0
    /\ frame_count = 0
    /\ cpc = [c \in Consumers |-> "detached"]
    /\ last_read_idx = [c \in Consumers |-> 0]
    /\ ret = [c \in Consumers |-> "uncalled"]
    /\ frame_ptr = [c \in Consumers |-> NoFrame]
    /\ rd_fn = [c \in Consumers |-> 0]
    /\ got = [c \in Consumers |-> <<>>]
    /\ attach_idx = [c \in Consumers |-> 0]
    /\ drops_reported = [c \in Consumers |-> 0]

InitWriter == RingUnused /\ WriterInit /\ CtlInit

NextWriter ==
    \/ \E n \in 1 .. MaxCount : StartWrite(n)
    \/ W_Loop
    \/ W_Pop
    \/ W_Fill
    \/ W_Push
    \/ W_UnlockQ
    \/ W_Notify
    \/ T_Loop
    \/ T_Lock
    \/ T_Pred
    \/ T_Sleep
    \/ T_Spurious
    \/ T_Deq
    \/ T_Write
    \/ T_Ret
    \/ T_UnlockFree
    \/ T_Flush
    \/ D_Stop
    \/ D_Notify
    \/ D_Join

SpecWriter == InitWriter /\ [][NextWriter]_vars

\* ------------------------------------------------- producer: publish_multi
\* A slot computation that is one off.
SlotAfter(idx, rs) == (idx + 1) % rs

\* slot = write_idx % ring_size_
SlotOf(idx, rs) == idx % rs

Attached(c) == cpc[c] \in {"idle", "hdr", "data"}

\* publish_multi as a bounded buffer would write it: the producer does not
\* touch a slot that an attached reader has not passed yet.
PublishHeaderWaits ==
    /\ prod = "open"
    /\ ppc = "idle"
    /\ frame_count < MaxFrames
    /\ \A c \in Consumers :
          Attached(c) => write_idx - last_read_idx[c] < p_ring_size
    /\ p_write_idx' = write_idx
    /\ slots' = [slots EXCEPT
                   ![SlotOf(write_idx, p_ring_size)].frame_number = frame_count]
    /\ ppc' = "data"
    /\ UNCHANGED <<shm_exists, shm_size, hdr, write_idx>>
    /\ UNCHANGED <<prod, p_ring_size, p_fft_size, p_channel_count, frame_count>>
    /\ UNCHANGED <<consVars, wrVars, ctlVars>>

\* publish_multi with the index stored first: write_idx moves on before the
\* slot is filled.
PublishHeaderStoresFirst ==
    /\ prod = "open"
    /\ ppc = "idle"
    /\ frame_count < MaxFrames
    /\ p_write_idx' = write_idx
    /\ write_idx' = write_idx + 1
    /\ slots' = [slots EXCEPT
                   ![SlotOf(write_idx, p_ring_size)].frame_number = frame_count]
    /\ ppc' = "data"
    /\ UNCHANGED <<shm_exists, shm_size, hdr>>
    /\ UNCHANGED <<prod, p_ring_size, p_fft_size, p_channel_count, frame_count>>
    /\ UNCHANGED <<consVars, wrVars, ctlVars>>

\* Lines 206-220: load write_idx, locate the slot, fill the frame header.
\* The caller passes its frame_count as frame_num.
PublishHeader ==
    /\ prod = "open"
    /\ ppc = "idle"
    /\ frame_count < MaxFrames
    /\ p_write_idx' = write_idx
    /\ slots' = [slots EXCEPT
                   ![SlotOf(write_idx, p_ring_size)].frame_number = frame_count]
    /\ ppc' = "data"
    /\ UNCHANGED <<shm_exists, shm_size, hdr, write_idx>>
    /\ UNCHANGED <<prod, p_ring_size, p_fft_size, p_channel_count, frame_count>>
    /\ UNCHANGED <<consVars, wrVars, ctlVars>>

\* Lines 223-230: copy the spectrum of this frame into the slot.
PublishData ==
    /\ ppc = "data"
    /\ slots' = [slots EXCEPT
                   ![SlotOf(p_write_idx, p_ring_size)].data = frame_count]
    /\ ppc' = "store"
    /\ UNCHANGED <<shm_exists, shm_size, hdr, write_idx>>
    /\ UNCHANGED <<prod, p_ring_size, p_fft_size, p_channel_count,
                   p_write_idx, frame_count>>
    /\ UNCHANGED <<consVars, wrVars, ctlVars>>

\* Lines 233-237: release fence, store write_idx + 1, update gps_locked;
\* then the loop's frame_count++ (sdr_streamer.cpp line 697).
PublishStore ==
    /\ ppc = "store"
    /\ write_idx' = p_write_idx + 1
    /\ \E g \in {0, 1} : hdr' = [hdr EXCEPT !.gps_locked = g]
    /\ frame_count' = frame_count + 1
    /\ ppc' = "idle"
    /\ UNCHANGED <<shm_exists, shm_size, slots>>
    /\ UNCHANGED <<prod, p_ring_size, p_fft_size, p_channel_count, p_write_idx>>
    /\ UNCHANGED <<consVars, wrVars, ctlVars>>

ProducerStep == PublishHeader \/ PublishData \/ PublishStore

\* ------------------------------------------------------------- consumers
\* Line 354 gives last_read_idx_ the default 0; a constructor that stopped
\* there would start every reader at the beginning of history.
AttachCursorDefault(w) == 0

\* Line 302: the cursor a new consumer starts from.
AttachCursor(w) == w

\* Constructor, lines 268-303: open the name, map it, check the magic,
\* start the cursor at the producer's write_idx.
OpenConsumer(c) ==
    /\ cpc[c] = "detached"
    /\ IF shm_exists /\ hdr.magic = SHM_MAGIC
       THEN /\ cpc' = [cpc EXCEPT ![c] = "idle"]
            /\ last_read_idx' = [last_read_idx EXCEPT
                                   ![c] = AttachCursor(write_idx)]
            /\ attach_idx' = [attach_idx EXCEPT ![c] = write_idx]
       ELSE /\ cpc' = [cpc EXCEPT ![c] = "failed"]
            /\ UNCHANGED <<last_read_idx, attach_idx>>
    /\ UNCHANGED <<ret, frame_ptr, rd_fn, got, drops_reported>>
    /\ UNCHANGED <<shmVars, prodVars, wrVars, ctlVars>>

\* The comparison of line 321 made strict: a reader level with the producer
\* is let through to a slot that is not published yet.
NoNewDataStrict(cur, w) == cur > w

\* Line 321: nothing new to read.
NoNewData(cur, w) == cur >= w

\* The comparison of line 326 off by one: a reader exactly one ring behind
\* is fast-forwarded too.
OverrunAtBoundary(cur, w, rs) == w - cur >= rs

\* Line 326: the reader has fallen more than a ring behind.
Overrun(cur, w, rs) == w - cur > rs

\* A fast-forward that skips to write_idx itself instead of the newest frame.
ReadFromPastNewest(cur, w, rs) == IF w - cur > rs THEN w ELSE cur

\* Lines 326-329: the index try_read reads from.
ReadFrom(cur, w, rs) == IF Overrun(cur, w, rs) THEN w - 1 ELSE cur

\* A try_read that keeps the header's read_idx (lines 67, 69) up to date.
TryReadStoresReadIdx(c) ==
    /\ cpc[c] = "idle"
    /\ Len(got[c]) < MaxReads
    /\ LET w   == write_idx
           cur == last_read_idx[c]
           rs  == hdr.ring_size
       IN IF NoNewData(cur, w)
          THEN /\ ret' = [ret EXCEPT ![c] = "nodata"]
               /\ frame_ptr' = [frame_ptr EXCEPT ![c] = NoFrame]
               /\ UNCHANGED <<cpc, last_read_idx, hdr>>
          ELSE /\ ret' = [ret EXCEPT ![c] = "frame"]
               /\ frame_ptr' = [frame_ptr EXCEPT
                                  ![c] = SlotOf(ReadFrom(cur, w, rs), rs)]
               /\ last_read_idx' = [last_read_idx EXCEPT
                                      ![c] = ReadFrom(cur, w, rs) + 1]
               /\ hdr' = [hdr EXCEPT !.read_idx = ReadFrom(cur, w, rs) + 1]
               /\ cpc' = [cpc EXCEPT ![c] = "hdr"]
    /\ UNCHANGED <<rd_fn, got, attach_idx, drops_reported>>
    /\ UNCHANGED <<shm_exists, shm_size, write_idx, slots>>
    /\ UNCHANGED <<prodVars, wrVars, ctlVars>>

\* try_read, lines 318-336. One acquire load of write_idx; everything else
\* is local to the consumer. The function returns the slot's address only:
\* it has no out-parameter or counter for skipped frames.
TryRead(c) ==
    /\ cpc[c] = "idle"
    /\ Len(got[c]) < MaxReads
    /\ LET w   == write_idx
           cur == last_read_idx[c]
           rs  == hdr.ring_size
       IN IF NoNewData(cur, w)
          THEN /\ ret' = [ret EXCEPT ![c] = "nodata"]
               /\ frame_ptr' = [frame_ptr EXCEPT ![c] = NoFrame]
               /\ UNCHANGED <<cpc, last_read_idx>>
          ELSE /\ ret' = [ret EXCEPT ![c] = "frame"]
               /\ frame_ptr' = [frame_ptr EXCEPT
                                  ![c] = SlotOf(ReadFrom(cur, w, rs), rs)]
               /\ last_read_idx' = [last_read_idx EXCEPT
                                      ![c] = ReadFrom(cur, w, rs) + 1]
               /\ cpc' = [cpc EXCEPT ![c] = "hdr"]
    /\ UNCHANGED <<rd_fn, got, attach_idx, drops_reported>>
    /\ UNCHANGED <<shmVars, prodVars, wrVars, ctlVars>>

\* The caller dereferences the returned FFTFrameHeader* ...
ReadHeader(c) ==
    /\ cpc[c] = "hdr"
    /\ rd_fn' = [rd_fn EXCEPT ![c] = slots[frame_ptr[c]].frame_number]
    /\ cpc' = [cpc EXCEPT ![c] = "data"]
    /\ UNCHANGED <<last_read_idx, ret, frame_ptr, got, attach_idx,
                   drops_reported>>
    /\ UNCHANGED <<shmVars, prodVars, wrVars, ctlVars>>

\* ... and then the spectrum behind it (get_spectrum, lines 338-343), and
\* takes the two together as one frame.
ReadSpectrum(c) ==
    /\ cpc[c] = "data"
    /\ got' = [got EXCEPT ![c] = Append(@,
                 [frame_number |-> rd_fn[c],
                  data |-> slots[frame_ptr[c]].data])]
    /\ cpc' = [cpc EXCEPT ![c] = "idle"]
    /\ UNCHANGED <<last_read_idx, ret, frame_ptr, rd_fn, attach_idx,
                   drops_reported>>
    /\ UNCHANGED <<shmVars, prodVars, wrVars, ctlVars>>

\* ---------------------------------------------------------- Spec: the ring
\* The state after SharedFFTProducer(RingSize, 1, 1) on a fresh name.
Init ==
    /\ shm_exists = TRUE
    /\ shm_size = TotalSize(RingSize, 1, 1)
    /\ hdr = InitHeader(RingSize, 1, 1)
    /\ write_idx = 0
    /\ slots = [i \in 0 .. RingSize - 1 |-> ZeroSlot]
    /\ prod = "open"
    /\ ppc = "idle"
    /\ p_ring_size = RingSize
    /\ p_fft_size = 1
    /\ p_channel_count = 1
    /\ p_write_idx = 0
    /\ frame_count = 0
    /\ cpc = [c \in Consumers |-> "detached"]
    /\ last_read_idx = [c \in Consumers |-> 0]
    /\ ret = [c \in Consumers |-> "uncalled"]
    /\ frame_ptr = [c \in Consumers |-> NoFrame]
    /\ rd_fn = [c \in Consumers |-> 0]
    /\ got = [c \in Consumers |-> <<>>]
    /\ attach_idx = [c \in Consumers |-> 0]
    /\ drops_reported = [c \in Consumers |-> 0]
    /\ WriterInit
    /\ CtlInit

Next ==
    \/ PublishHeader
    \/ PublishData
    \/ PublishStore
    \/ \E c \in Consumers : OpenConsumer(c)
    \/ \E c \in Consumers : TryRead(c)
    \/ \E c \in Consumers : ReadHeader(c)
    \/ \E c \in Consumers : ReadSpectrum(c)

Spec == Init /\ [][Next]_vars

\* ----------------------------------- SpecClose: the producer is destroyed
\* A destructor that leaves the header as it is.
HeaderLeft(h) == h

\* Line 170: header_->streaming = 0.
HeaderCleared(h) == [h EXCEPT !.streaming = 0]

\* ~SharedFFTProducer, lines 169-171, between two publishes.
P_ClearStreaming ==
    /\ prod = "open"
    /\ ppc = "idle"
    /\ hdr' = HeaderCleared(hdr)
    /\ prod' = "closing"
    /\ UNCHANGED <<shm_exists, shm_size, write_idx, slots>>
    /\ UNCHANGED <<ppc, p_ring_size, p_fft_size, p_channel_count, p_write_idx,
                   frame_count>>
    /\ UNCHANGED <<consVars, wrVars, ctlVars>>

\* Lines 172-174: munmap of the producer's own mapping; the object and the
\* consumers' mappings stay.
P_Unmap ==
    /\ prod = "closing"
    /\ prod' = "unmapped"
    /\ UNCHANGED <<shmVars, ppc, p_ring_size, p_fft_size, p_channel_count,
                   p_write_idx, frame_count>>
    /\ UNCHANGED <<consVars, wrVars, ctlVars>>

\* Lines 175-178: close(fd_), shm_unlink(SHM_NAME). The name is gone; the
\* memory lives on under the mappings of the consumers still attached.
P_Unlink ==
    /\ prod = "unmapped"
    /\ shm_exists' = FALSE
    /\ prod' = "closed"
    /\ UNCHANGED <<shm_size, hdr, write_idx, slots>>
    /\ UNCHANGED <<ppc, p_ring_size, p_fft_size, p_channel_count, p_write_idx,
                   frame_count>>
    /\ UNCHANGED <<consVars, wrVars, ctlVars>>

\* Line 346: what is_streaming() returns to an attached consumer.
is_streaming == hdr.streaming # 0

NextClose ==
    \/ PublishHeader
    \/ PublishData
    \/ PublishStore
    \/ \E c \in Consumers : OpenConsumer(c)
    \/ \E c \in Consumers : TryRead(c)
    \/ \E c \in Consumers : ReadHeader(c)
    \/ \E c \in Consumers : ReadSpectrum(c)
    \/ P_ClearStreaming
    \/ P_Unmap
    \/ P_Unlink

SpecClose == Init /\ [][NextClose]_vars

\* ------------------------------------------ SpecOpen: opening the region
OpenFailures == {"none", "shm_open", "ftruncate", "mmap"}

\* SharedFFTProducer's constructor, lines 110-166, on whatever is linked
\* under SHM_NAME. shm_open uses O_CREAT without O_EXCL, so an existing
\* object is opened as it is; `fail` is the system call that fails, if any.
\*   shm_open fails:  throw, nothing touched (lines 121-125);
\*   ftruncate fails: close, shm_unlink, throw (lines 128-133);
\*   mmap fails:      the object was resized; close, shm_unlink, throw
\*                    (lines 136-143);
\*   none:            the object has the new size and a fresh header, and
\*                    write_idx is stored as 0 (lines 145-160).
Construct(rs, fs, cc, fail) ==
    /\ p_ring_size' = rs
    /\ p_fft_size' = fs
    /\ p_channel_count' = cc
    /\ prod' = IF fail = "none" THEN "open" ELSE "failed"
    /\ shm_exists' = CASE fail = "none" -> TRUE
                       [] fail = "shm_open" -> shm_exists
                       [] OTHER -> FALSE
    /\ shm_size' = IF fail \in {"none", "mmap"}
                   THEN TotalSize(rs, fs, cc)
                   ELSE shm_size
    /\ hdr' = IF fail = "none" THEN InitHeader(rs, fs, cc) ELSE hdr
    /\ write_idx' = IF fail = "none" THEN 0 ELSE write_idx

\* Some process constructs a SharedFFTProducer.
OpenProducer(rs, fs, cc, fail) ==
    /\ prod = "none"
    /\ Construct(rs, fs, cc, fail)
    /\ UNCHANGED <<slots, ppc, p_write_idx, frame_count>>
    /\ UNCHANGED <<consVars, wrVars, ctlVars>>

ZeroHeader ==
    [magic |-> 0, version |-> 0, ring_size |-> 0, fft_size |-> 0,
     channel_count |-> 0, frame_size |-> 0, read_idx |-> 0,
     gps_locked |-> 0, streaming |-> 0]

\* Headers a region left under the name by some producer build may carry.
FoundHeaders ==
    {[InitHeader(rs, fs, cc) EXCEPT !.magic = m, !.version = v, !.streaming = st] :
        rs \in RingSizes, fs \in FftSizes, cc \in Channels,
        m \in Magics, v \in Versions, st \in {0, 1}}

\* No producer object yet; the name is either unlinked or carries a region
\* with some header and some write_idx.
InitOpen ==
    /\ shm_exists \in BOOLEAN
    /\ IF shm_exists
       THEN /\ hdr \in FoundHeaders
            /\ write_idx \in 0 .. RingSize
            /\ shm_size = TotalSize(hdr.ring_size, hdr.fft_size,
                                    hdr.channel_count)
       ELSE /\ hdr = ZeroHeader
            /\ write_idx = 0
            /\ shm_size = 0
    /\ slots = [i \in 0 .. RingSize - 1 |-> ZeroSlot]
    /\ prod = "none"
    /\ ppc = "idle"
    /\ p_ring_size = 0
    /\ p_fft_size = 0
    /\ p_channel_count = 0
    /\ p_write_idx = 0
    /\ frame_count = 0
    /\ cpc = [c \in Consumers |-> "detached"]
    /\ last_read_idx = [c \in Consumers |-> 0]
    /\ ret = [c \in Consumers |-> "uncalled"]
    /\ frame_ptr = [c \in Consumers |-> NoFrame]
    /\ rd_fn = [c \in Consumers |-> 0]
    /\ got = [c \in Consumers |-> <<>>]
    /\ attach_idx = [c \in Consumers |-> 0]
    /\ drops_reported = [c \in Consumers |-> 0]
    /\ WriterInit
    /\ CtlInit

NextOpen ==
    \/ \E rs \in RingSizes, fs \in FftSizes, cc \in Channels,
          fail \in OpenFailures : OpenProducer(rs, fs, cc, fail)
    \/ \E c \in Consumers : OpenConsumer(c)

SpecOpen == InitOpen /\ [][NextOpen]_vars

\* ============================================ sdr_streamer: control plane
\* Setting the stop flag; frames_at_stop remembers the frame counter at the
\* moment the flag first became true.
SetStop ==
    /\ stop_signal_called' = TRUE
    /\ frames_at_stop' = IF stop_signal_called THEN frames_at_stop
                                               ELSE frame_count

\* Lines 56-58: SIGINT or SIGTERM while the process runs.
Signal ==
    /\ apc # "stopped"
    /\ ~stop_signal_called
    /\ SetStop
    /\ UNCHANGED <<current_frequency, current_gain, current_sample_rate, usrp,
                   usrp_called, rx_streaming, srv_pc, conn, inbox, cmd, resp,
                   reqs_read, replies, sent, conns, apc>>
    /\ UNCHANGED <<ringAll, wrVars, acqVars, recVars>>

\* ---------------------------------------------------------------- clients
FreqValues == {B210_MIN_FREQ - 1, B210_MIN_FREQ, B210_MAX_FREQ,
               B210_MAX_FREQ + 1}
GainValues == {B210_MIN_RX_GAIN - 1, B210_MIN_RX_GAIN, B210_MAX_RX_GAIN,
               B210_MAX_RX_GAIN + 1}
BwValues   == {B210_MIN_BW - 1, B210_MIN_BW, B210_MAX_BW, B210_MAX_BW + 1}
\* A sample rate the B210 supports and that differs from the running one.
SampleRateValues == {2 * DefaultRate}

\* The <<type, value>> pairs a client writes.
Requests ==
    ({SET_FREQUENCY} \X FreqValues) \cup ({SET_GAIN} \X GainValues)
      \cup ({SET_BANDWIDTH} \X BwValues)
      \cup ({SET_SAMPLE_RATE} \X SampleRateValues)
      \cup ({GET_STATUS, PING, STOP, UnknownType} \X {0})

\* A client connects to the listening socket.
Connect ==
    /\ conn = "none"
    /\ conns < MaxConns
    /\ srv_pc # "done"
    /\ conn' = "pending"
    /\ conns' = conns + 1
    /\ UNCHANGED <<stop_signal_called, current_frequency, current_gain,
                   current_sample_rate, usrp, usrp_called, rx_streaming, srv_pc,
                   inbox, cmd, resp, reqs_read, replies, sent, apc,
                   frames_at_stop>>
    /\ UNCHANGED <<ringAll, wrVars, acqVars, recVars>>

\* The client writes one whole ControlCommand.
ClientSend(t, v) ==
    /\ conn \in {"pending", "open"}
    /\ sent < MaxCmds
    /\ inbox' = Append(inbox, [seq |-> sent + 1, type |-> t, value |-> v,
                               complete |-> TRUE])
    /\ sent' = sent + 1
    /\ UNCHANGED <<stop_signal_called, current_frequency, current_gain,
                   current_sample_rate, usrp, usrp_called, rx_streaming, srv_pc,
                   conn, cmd, resp, reqs_read, replies, conns, apc,
                   frames_at_stop>>
    /\ UNCHANGED <<ringAll, wrVars, acqVars, recVars>>

\* The client writes fewer bytes than a ControlCommand has.
ClientSendPartial ==
    /\ conn \in {"pending", "open"}
    /\ sent < MaxCmds
    /\ inbox' = Append(inbox, [seq |-> sent + 1, type |-> UnknownType,
                               value |-> 0, complete |-> FALSE])
    /\ sent' = sent + 1
    /\ UNCHANGED <<stop_signal_called, current_frequency, current_gain,
                   current_sample_rate, usrp, usrp_called, rx_streaming, srv_pc,
                   conn, cmd, resp, reqs_read, replies, conns, apc,
                   frames_at_stop>>
    /\ UNCHANGED <<ringAll, wrVars, acqVars, recVars>>

\* The client closes its end of an accepted connection.
ClientClose ==
    /\ conn = "open"
    /\ conn' = "hup"
    /\ UNCHANGED <<stop_signal_called, current_frequency, current_gain,
                   current_sample_rate, usrp, usrp_called, rx_streaming, srv_pc,
                   inbox, cmd, resp, reqs_read, replies, sent, conns, apc,
                   frames_at_stop>>
    /\ UNCHANGED <<ringAll, wrVars, acqVars, recVars>>

\* -------------------------------------------- control_socket_thread, 172-315
\* Lines 205-217: the outer loop test, poll with its one-second timeout,
\* accept; lines 312-314 when the stop flag ends the loop.
S_Poll ==
    /\ srv_pc = "poll"
    /\ IF stop_signal_called
       THEN /\ srv_pc' = "done"
            /\ UNCHANGED <<conn, reqs_read, replies>>
       ELSE IF conn = "pending"
            THEN /\ conn' = "open"
                 /\ srv_pc' = "inner"
                 /\ reqs_read' = <<>>
                 /\ replies' = <<>>
            ELSE UNCHANGED <<srv_pc, conn, reqs_read, replies>>
    /\ UNCHANGED <<stop_signal_called, current_frequency, current_gain,
                   current_sample_rate, usrp, usrp_called, rx_streaming, inbox,
                   cmd, resp, sent, conns, apc, frames_at_stop>>
    /\ UNCHANGED <<ringAll, wrVars, acqVars, recVars>>

\* Line 221: the inner loop test; line 308 when the stop flag ends it.
S_Inner ==
    /\ srv_pc = "inner"
    /\ IF stop_signal_called
       THEN /\ conn' = "none"
            /\ inbox' = <<>>
            /\ srv_pc' = "poll"
       ELSE /\ srv_pc' = "recv"
            /\ UNCHANGED <<conn, inbox>>
    /\ UNCHANGED <<stop_signal_called, current_frequency, current_gain,
                   current_sample_rate, usrp, usrp_called, rx_streaming, cmd,
                   resp, reqs_read, replies, sent, conns, apc, frames_at_stop>>
    /\ UNCHANGED <<ringAll, wrVars, acqVars, recVars>>

\* Lines 222-223: recv on the accepted socket, which blocks until the client
\* has written something or closed; anything but a whole command ends the
\* connection (line 308).
S_Recv ==
    /\ srv_pc = "recv"
    /\ inbox # <<>> \/ conn = "hup"
    /\ IF inbox # <<>> /\ Head(inbox).complete
       THEN /\ cmd' = Head(inbox)
            /\ inbox' = Tail(inbox)
            /\ reqs_read' = Append(reqs_read, Head(inbox).seq)
            /\ srv_pc' = "handle"
            /\ UNCHANGED conn
       ELSE /\ conn' = "none"
            /\ inbox' = <<>>
            /\ srv_pc' = "poll"
            /\ UNCHANGED <<cmd, reqs_read>>
    /\ UNCHANGED <<stop_signal_called, current_frequency, current_gain,
                   current_sample_rate, usrp, usrp_called, rx_streaming, resp,
                   replies, sent, conns, apc, frames_at_stop>>
    /\ UNCHANGED <<ringAll, wrVars, acqVars, recVars>>

\* A range check that forgets the lower bound.
InRangeBelowMax(v, lo, hi) == v <= hi

\* A range check that excludes the bounds themselves.
InRangeExclusive(v, lo, hi) == v > lo /\ v < hi

\* Lines 231, 247, 263: cmd.value >= MIN && cmd.value <= MAX.
InRange(v, lo, hi) == v >= lo /\ v <= hi

\* What the front end reports after set_rx_*(v): v, or the neighbouring
\* setting it could tune to.
Actual(v, lo, hi, coerced) ==
    IF ~coerced THEN v ELSE IF v < hi THEN v + 1 ELSE v - 1

\* set_rx_* or get_rx_* may throw (caught at line 299).
HwErrors == {"none", "set", "get"}

\* The front end after set_rx_*: unchanged if the set call threw.
UsrpAfter(field, a, err) ==
    IF err = "set" THEN usrp ELSE [usrp EXCEPT ![field] = a]

\* The response of an in-range set command (lines 233, 249, 265; 299-303).
SetResponse(a, err, msg) ==
    IF err = "none"
    THEN [success |-> 1, actual_value |-> a, message |-> msg]
    ELSE [success |-> 0, actual_value |-> 0, message |-> "Error"]

Rejected(msg) == [success |-> 0, actual_value |-> 0, message |-> msg]

\* Lines 225-303: build the response for cmd. err and coerced are what the
\* front end does if it is called.
S_Handle(err, coerced) ==
    /\ srv_pc = "handle"
    /\ CASE cmd.type = SET_FREQUENCY ->
              IF InRange(cmd.value, B210_MIN_FREQ, B210_MAX_FREQ)
              THEN /\ usrp' = UsrpAfter("rx_freq",
                                Actual(cmd.value, B210_MIN_FREQ, B210_MAX_FREQ,
                                       coerced), err)
                   /\ usrp_called' = TRUE
                   /\ resp' = SetResponse(usrp'.rx_freq, err, "Frequency set")
                   /\ current_frequency' =
                        IF err = "none" THEN resp'.actual_value
                                        ELSE current_frequency
                   /\ UNCHANGED <<current_gain, stop_signal_called,
                                  frames_at_stop>>
              ELSE /\ resp' = Rejected("Frequency out of range")
                   /\ UNCHANGED <<usrp, usrp_called, current_frequency,
                                  current_gain, stop_signal_called,
                                  frames_at_stop>>
         [] cmd.type = SET_GAIN ->
              IF InRange(cmd.value, B210_MIN_RX_GAIN, B210_MAX_RX_GAIN)
              THEN /\ usrp' = UsrpAfter("rx_gain",
                                Actual(cmd.value, B210_MIN_RX_GAIN,
                                       B210_MAX_RX_GAIN, coerced), err)
                   /\ usrp_called' = TRUE
                   /\ resp' = SetResponse(usrp'.rx_gain, err, "Gain set")
                   /\ current_gain' =
                        IF err = "none" THEN resp'.actual_value
                                        ELSE current_gain
                   /\ UNCHANGED <<current_frequency, stop_signal_called,
                                  frames_at_stop>>
              ELSE /\ resp' = Rejected("Gain out of range")
                   /\ UNCHANGED <<usrp, usrp_called, current_frequency,
                                  current_gain, stop_signal_called,
                                  frames_at_stop>>
         [] cmd.type = SET_BANDWIDTH ->
              IF InRange(cmd.value, B210_MIN_BW, B210_MAX_BW)
              THEN /\ usrp' = UsrpAfter("rx_bandwidth",
                                Actual(cmd.value, B210_MIN_BW, B210_MAX_BW,
                                       coerced), err)
                   /\ usrp_called' = TRUE
                   /\ resp' = SetResponse(usrp'.rx_bandwidth, err,
                                          "Bandwidth set")
                   /\ UNCHANGED <<current_frequency, current_gain,
                                  stop_signal_called, frames_at_stop>>
              ELSE /\ resp' = Rejected("Bandwidth out of range")
                   /\ UNCHANGED <<usrp, usrp_called, current_frequency,
                                  current_gain, stop_signal_called,
                                  frames_at_stop>>
         [] cmd.type = GET_STATUS ->
              /\ resp' = [success |-> 1, actual_value |-> current_frequency,
                          message |-> "status"]
              /\ UNCHANGED <<usrp, usrp_called, current_frequency, current_gain,
                             stop_signal_called, frames_at_stop>>
         [] cmd.type = PING ->
              /\ resp' = [success |-> 1, actual_value |-> 0,
                          message |-> "pong"]
              /\ UNCHANGED <<usrp, usrp_called, current_frequency, current_gain,
                             stop_signal_called, frames_at_stop>>
         [] cmd.type = STOP ->
              /\ SetStop
              /\ resp' = [success |-> 1, actual_value |-> 0,
                          message |-> "Stopping..."]
              /\ UNCHANGED <<usrp, usrp_called, current_frequency, current_gain>>
         [] OTHER ->
              /\ resp' = Rejected("Unknown command")
              /\ UNCHANGED <<usrp, usrp_called, current_frequency, current_gain,
                             stop_signal_called, frames_at_stop>>
    /\ freq_held' = freq_held \cup {current_frequency'}
    /\ srv_pc' = "send"
    /\ UNCHANGED <<current_sample_rate, rx_streaming, conn, inbox, cmd,
                   reqs_read, replies, sent, conns, apc>>
    /\ UNCHANGED <<shm_mode, curr_freq, emitted, plans, fftVars>>
    /\ UNCHANGED <<ringAll, wrVars, recVars>>

\* A server that answers only the commands that succeeded.
ReplyOnSuccess(rs, c, r) ==
    IF r.success = 1
    THEN Append(rs, [for |-> c.seq, success |-> r.success])
    ELSE rs

\* Line 305: the response to command c goes to the client; `for` is the
\* request it answers.
Reply(rs, c, r) ==
    Append(rs, [for |-> c.seq, success |-> r.success])

\* A server that sends a failure response and then drops the connection.
S_SendClosesOnFailure ==
    /\ srv_pc = "send"
    /\ replies' = Reply(replies, cmd, resp)
    /\ resp' = NoResp
    /\ usrp_called' = FALSE
    /\ IF resp.success = 0
       THEN /\ conn' = "none"
            /\ inbox' = <<>>
            /\ srv_pc' = "poll"
       ELSE /\ srv_pc' = "inner"
            /\ UNCHANGED <<conn, inbox>>
    /\ UNCHANGED <<stop_signal_called, current_frequency, current_gain,
                   current_sample_rate, usrp, rx_streaming,
                   cmd, reqs_read, sent, conns, apc, frames_at_stop>>
    /\ UNCHANGED <<ringAll, wrVars, acqVars, recVars>>

\* Lines 305-306: send; resp's scope ends, the command is answered; back to
\* the inner loop test.
S_Send ==
    /\ srv_pc = "send"
    /\ replies' = Reply(replies, cmd, resp)
    /\ resp' = NoResp
    /\ usrp_called' = FALSE
    /\ srv_pc' = "inner"
    /\ UNCHANGED <<stop_signal_called, current_frequency, current_gain,
                   current_sample_rate, usrp, rx_streaming, conn,
                   inbox, cmd, reqs_read, sent, conns, apc, frames_at_stop>>
    /\ UNCHANGED <<ringAll, wrVars, acqVars, recVars>>

\* The steps control_socket_thread can take.
ControlStep ==
    \/ S_Poll \/ S_Inner \/ S_Recv
    \/ (\E e \in HwErrors, k \in BOOLEAN : S_Handle(e, k))
    \/ S_Send

\* ------------------------------------------- the acquisition loop, 589-742
\* What only the control thread and its clients change.
srvVars == <<current_gain, current_sample_rate, usrp, usrp_called, srv_pc,
             conn, inbox, cmd, resp, reqs_read, replies, sent, conns>>

\* Lines 589-601: with --shm, construct the producer for one channel of
\* fft_size bins; if the constructor throws, report it and go on with
\* shm_mode = false, that is with the stdout output.
A_Setup(fail) ==
    /\ apc = "setup"
    /\ IF shm_mode
       THEN /\ Construct(RingSize, 1, 1, fail)
            /\ shm_mode' = (fail = "none")
       ELSE UNCHANGED <<shm_exists, shm_size, hdr, write_idx, prod,
                        p_ring_size, p_fft_size, p_channel_count, shm_mode>>
    /\ apc' = "check"
    /\ UNCHANGED <<slots, ppc, p_write_idx, frame_count>>
    /\ UNCHANGED <<stop_signal_called, current_frequency, rx_streaming,
                   frames_at_stop, curr_freq, emitted, freq_held, plans,
                   fftVars>>
    /\ UNCHANGED <<srvVars, consVars, wrVars, recVars>>

\* An acquisition loop that never looks at the stop flag.
KeepStreamingAlways(stop) == TRUE

\* Line 615: while (!stop_signal_called).
KeepStreaming(stop) == ~stop

A_Check ==
    /\ apc = "check"
    /\ apc' = IF KeepStreaming(stop_signal_called) THEN "recv" ELSE "draining"
    /\ UNCHANGED <<stop_signal_called, current_frequency, rx_streaming,
                   frames_at_stop>>
    /\ UNCHANGED <<srvVars, ringAll, wrVars, acqVars, recVars>>

\* What rx_stream->recv, with its 3 s timeout, comes back with: an error
\* code (timeout, overflow, any other), or no error and a short or a full
\* buffer.
RecvOutcomes == {"timeout", "overflow", "error", "short", "ok"}

\* Lines 619-634: the branch the tests after recv take. md.error_code is
\* compared with ERROR_CODE_TIMEOUT (620), then with ERROR_CODE_NONE (624),
\* which an overflow and a hard error both fail; then the count is checked.
AfterRecv(outcome) ==
    CASE outcome = "timeout"  -> "timed_out"
      [] outcome = "overflow" -> "overflowed"
      [] outcome = "error"    -> "rx_error"
      [] outcome = "short"    -> "short_block"
      [] OTHER                -> "emit"

\* Line 617 and the tests after it; the front end yields at most `cycles`
\* full buffers.
Fetch(outcome, cycles) ==
    /\ apc = "recv"
    /\ outcome = "ok" => Len(emitted) < cycles
    /\ apc' = AfterRecv(outcome)
    /\ UNCHANGED <<stop_signal_called, current_frequency, rx_streaming,
                   frames_at_stop>>
    /\ UNCHANGED <<srvVars, ringAll, wrVars, acqVars, recVars>>

A_Recv(outcome) == Fetch(outcome, MaxCycles)

\* Beside the control thread the front end is a healthy one: a recv times
\* out or fills the buffer.
AcqOutcomes == {"timeout", "ok"}

Skipped == {"timed_out", "overflowed", "rx_error", "short_block"}

\* A loop that gives up on the first cycle without a frame.
AfterSkipLeaves(branch) == "draining"

\* Lines 621-622, 625-626 and 631-633: each of the three branches prints its
\* message and executes `continue`.
AfterSkip(branch) == "check"

A_Continue ==
    /\ apc \in Skipped
    /\ apc' = AfterSkip(apc)
    /\ UNCHANGED <<stop_signal_called, current_frequency, rx_streaming,
                   frames_at_stop>>
    /\ UNCHANGED <<srvVars, ringAll, wrVars, acqVars, recVars>>

\* A loop that asks the front end what it is tuned to.
LoadFrequencyFromFrontEnd == usrp.rx_freq

\* Line 675: current_frequency.load().
LoadFrequency == current_frequency

\* Lines 636-677: the FFT of the block, then the loads of the atomics.
A_Load ==
    /\ apc = "emit"
    /\ curr_freq' = LoadFrequency
    /\ apc' = "publish"
    /\ UNCHANGED <<stop_signal_called, current_frequency, rx_streaming,
                   frames_at_stop, shm_mode, emitted, freq_held, plans,
                   fftVars>>
    /\ UNCHANGED <<srvVars, ringAll, wrVars, recVars>>

\* uint32_t frame_count (line 604), CounterBits wide here.
FrameCountModulus == 2 ^ CounterBits

\* Line 697: frame_count++ on the unsigned counter.
NextFrameCount(n) == (n + 1) % FrameCountModulus

\* Line 680: shm_mode && shm_producer.
ToShm == shm_mode /\ prod = "open"

\* Lines 680-701: put the frame out, through publish_multi (as a whole: no
\* consumer runs beside this loop) or with the binary header on stdout,
\* both carrying frame_count and curr_freq; then frame_count++. `due` is the
\* test of line 701: ten seconds have passed since the last status report,
\* and the loop enters get_gpsdo_status(usrp).
Emit(due) ==
    /\ apc = "publish"
    /\ emitted' = Append(emitted,
                    [frame_number |-> frame_count, center_freq |-> curr_freq,
                     sink |-> IF ToShm THEN "shm" ELSE "stdout"])
    /\ IF ToShm
       THEN /\ slots' = [slots EXCEPT ![SlotOf(write_idx, p_ring_size)] =
                           [frame_number |-> frame_count,
                            data |-> frame_count]]
            /\ write_idx' = write_idx + 1
            /\ \E g \in {0, 1} : hdr' = [hdr EXCEPT !.gps_locked = g]
       ELSE UNCHANGED <<slots, write_idx, hdr>>
    /\ frame_count' = NextFrameCount(frame_count)
    /\ apc' = IF due THEN "status" ELSE "check"
    /\ UNCHANGED <<stop_signal_called, current_frequency, rx_streaming,
                   frames_at_stop, shm_mode, curr_freq, freq_held, plans,
                   fftVars>>
    /\ UNCHANGED <<shm_exists, shm_size, prod, ppc, p_ring_size, p_fft_size,
                   p_channel_count, p_write_idx>>
    /\ UNCHANGED <<srvVars, consVars, wrVars, recVars>>

\* The cycles of a run shorter than the ten seconds of the status period.
A_Emit == Emit(FALSE)

\* Lines 702-721: the sensor reads on the front-end handle (gps_locked,
\* gps_time, ..., the two temperatures) have returned and the status record
\* is written; back to the loop test.
A_Status ==
    /\ apc = "status"
    /\ apc' = "check"
    /\ UNCHANGED <<stop_signal_called, current_frequency, rx_streaming,
                   frames_at_stop>>
    /\ UNCHANGED <<srvVars, ringAll, wrVars, acqVars, recVars>>

\* Lines 725-736: STREAM_MODE_STOP_CONTINUOUS, the FFT plans released, and
\* shm_producer.reset(): the destructor clears streaming and unlinks the name
\* (shared_fft_buffer.hpp lines 168-180).
A_StopFrontEnd ==
    /\ apc = "draining"
    /\ rx_streaming' = FALSE
    /\ IF prod = "open"
       THEN /\ hdr' = [hdr EXCEPT !.streaming = 0]
            /\ shm_exists' = FALSE
            /\ prod' = "closed"
       ELSE UNCHANGED <<hdr, shm_exists, prod>>
    /\ plans' = "destroyed"
    /\ apc' = "cleanup"
    /\ UNCHANGED <<stop_signal_called, current_frequency, frames_at_stop>>
    /\ UNCHANGED <<shm_size, write_idx, slots, ppc, p_ring_size, p_fft_size,
                   p_channel_count, p_write_idx, frame_count>>
    /\ UNCHANGED <<shm_mode, curr_freq, emitted, freq_held, fftVars>>
    /\ UNCHANGED <<srvVars, consVars, wrVars, recVars>>

\* A main that returns without waiting for the control thread.
A_JoinDetached ==
    /\ apc = "cleanup"
    /\ apc' = "stopped"
    /\ UNCHANGED <<stop_signal_called, current_frequency, rx_streaming,
                   frames_at_stop>>
    /\ UNCHANGED <<srvVars, ringAll, wrVars, acqVars, recVars>>

\* Lines 739-742: join the control thread, report the clean stop, return.
A_Join ==
    /\ apc = "cleanup"
    /\ srv_pc = "done"
    /\ apc' = "stopped"
    /\ UNCHANGED <<stop_signal_called, current_frequency, rx_streaming,
                   frames_at_stop>>
    /\ UNCHANGED <<srvVars, ringAll, wrVars, acqVars, recVars>>

\* The steps the acquisition loop takes without waiting for another thread.
AcquisitionStep ==
    \/ A_Check
    \/ (\E o \in AcqOutcomes : A_Recv(o))
    \/ A_Continue
    \/ A_Load
    \/ A_Emit
    \/ A_StopFrontEnd

\* ---------------------------------------------------------------- SpecCtl
\* The control thread and its clients, with stop signals; the acquisition
\* loop is left at its loop test.
InitCtl == RingUnused /\ WriterInit /\ CtlInit

NextCtl ==
    \/ Signal
    \/ Connect
    \/ \E r \in Requests : ClientSend(r[1], r[2])
    \/ ClientSendPartial
    \/ ClientClose
    \/ S_Poll
    \/ S_Inner
    \/ S_Recv
    \/ \E e \in HwErrors, k \in BOOLEAN : S_Handle(e, k)
    \/ S_Send

SpecCtl == InitCtl /\ [][NextCtl]_vars

\* ---------------------------------------------------------------- SpecAcq
\* The acquisition loop beside the control thread, with clients that send
\* the requests the loop can notice: STOP, and a new frequency.
AcqRequests == {<<STOP, 0>>, <<SET_FREQUENCY, B210_MAX_FREQ>>}

NextAcq ==
    \/ Signal
    \/ Connect
    \/ \E r \in AcqRequests : ClientSend(r[1], r[2])
    \/ ClientClose
    \/ S_Poll
    \/ S_Inner
    \/ S_Recv
    \/ \E e \in HwErrors, k \in BOOLEAN : S_Handle(e, k)
    \/ S_Send
    \/ A_Check
    \/ \E o \in AcqOutcomes : A_Recv(o)
    \/ A_Continue
    \/ A_Load
    \/ A_Emit
    \/ A_StopFrontEnd
    \/ A_Join

SpecAcq == InitCtl /\ [][NextAcq]_vars

\* The operating system schedules the main thread, and recv returns within
\* its timeout: the acquisition loop keeps taking its steps.
FairSpecAcq == SpecAcq /\ WF_vars(AcquisitionStep)

\* ----------------------------------------------------------------- SpecHw
\* SpecAcq on runs that last past the status period: after a frame the loop
\* may find its status report due and read the front end's sensors, while
\* the control thread serves its clients.
NextHw ==
    \/ Signal
    \/ Connect
    \/ \E r \in AcqRequests : ClientSend(r[1], r[2])
    \/ ClientClose
    \/ S_Poll
    \/ S_Inner
    \/ S_Recv
    \/ \E e \in HwErrors, k \in BOOLEAN : S_Handle(e, k)
    \/ S_Send
    \/ A_Check
    \/ \E o \in AcqOutcomes : A_Recv(o)
    \/ A_Continue
    \/ A_Load
    \/ \E due \in BOOLEAN : Emit(due)
    \/ A_Status
    \/ A_StopFrontEnd
    \/ A_Join

SpecHw == InitCtl /\ [][NextHw]_vars

\* --------------------------------------------------------------- SpecLoop
\* main from line 589 to its return: the output is chosen on the command
\* line, the producer's constructor may fail, the front end yields enough
\* full buffers for the frame counter to wrap, no client connects.
WrapCycles == FrameCountModulus + 1

L_Recv(outcome) == Fetch(outcome, WrapCycles)

InitLoop ==
    /\ RingUnused
    /\ WriterInit
    /\ ProcessInit
    /\ FftIdle
    /\ apc = "setup"
    /\ shm_mode \in BOOLEAN

NextLoop ==
    \/ Signal
    \/ \E fail \in OpenFailures : A_Setup(fail)
    \/ A_Check
    \/ \E o \in RecvOutcomes : L_Recv(o)
    \/ A_Continue
    \/ A_Load
    \/ A_Emit
    \/ A_StopFrontEnd
    \/ S_Poll
    \/ A_Join

SpecLoop == InitLoop /\ [][NextLoop]_vars

\* --------------------------------------------------------------- SpecMain
\* main from its first line: no device yet, no control thread, no plans.
NoDevice == [rx_freq |-> 0, rx_gain |-> 0, rx_bandwidth |-> 0, rx_rate |-> 0]

\* A main that starts its loop as soon as the device exists.
A_CreateSkipsConfigure(ok) ==
    /\ apc = "idle"
    /\ apc' = IF ok THEN "check" ELSE "failed"
    /\ UNCHANGED <<stop_signal_called, current_frequency, rx_streaming,
                   frames_at_stop>>
    /\ UNCHANGED <<srvVars, ringAll, wrVars, acqVars, recVars>>

\* Lines 396-472: the options (valid ones: the defaults) are stored in the
\* atomics and multi_usrp::make is called; if no device answers it throws,
\* and UHD_SAFE_MAIN returns EXIT_FAILURE.
A_Create(ok) ==
    /\ apc = "idle"
    /\ apc' = IF ok THEN "configuring" ELSE "failed"
    /\ UNCHANGED <<stop_signal_called, current_frequency, rx_streaming,
                   frames_at_stop>>
    /\ UNCHANGED <<srvVars, ringAll, wrVars, acqVars, recVars>>

\* Lines 474-587: clock source, set_rx_rate / freq / gain / bandwidth, the
\* atomics reloaded from the device, the control thread started, the stream
\* started, the FFT plans made, the signal handler installed.
A_Configure ==
    /\ apc = "configuring"
    /\ usrp' = [rx_freq |-> current_frequency, rx_gain |-> current_gain,
                rx_bandwidth |-> DefaultBw, rx_rate |-> current_sample_rate]
    /\ srv_pc' = "poll"
    /\ rx_streaming' = TRUE
    /\ plans' = "made"
    /\ apc' = "setup"
    /\ UNCHANGED <<stop_signal_called, current_frequency, current_gain,
                   current_sample_rate, usrp_called, conn, inbox, cmd, resp,
                   reqs_read, replies, sent, conns, frames_at_stop>>
    /\ UNCHANGED <<shm_mode, curr_freq, emitted, freq_held, fftVars>>
    /\ UNCHANGED <<ringAll, wrVars, recVars>>

\* SIGINT or SIGTERM once sig_int_handler is installed (lines 586-587).
M_Signal ==
    /\ apc \notin {"idle", "configuring", "failed"}
    /\ Signal

InitMain ==
    /\ RingUnused
    /\ WriterInit
    /\ stop_signal_called = FALSE
    /\ usrp = NoDevice
    /\ current_frequency = DefaultFreq
    /\ current_gain = DefaultGain
    /\ current_sample_rate = DefaultRate
    /\ usrp_called = FALSE
    /\ rx_streaming = FALSE
    /\ srv_pc = "unstarted"
    /\ conn = "none"
    /\ inbox = <<>>
    /\ cmd = NoCmd
    /\ resp = NoResp
    /\ reqs_read = <<>>
    /\ replies = <<>>
    /\ sent = 0
    /\ conns = 0
    /\ frames_at_stop = NoFrame
    /\ curr_freq = 0
    /\ emitted = <<>>
    /\ freq_held = {DefaultFreq}
    /\ plans = "none"
    /\ FftIdle
    /\ rpc = "check"
    /\ overflow_count = 0
    /\ samples_received = 0
    /\ apc = "idle"
    /\ shm_mode \in BOOLEAN

NextMain ==
    \/ \E ok \in BOOLEAN : A_Create(ok)
    \/ A_Configure
    \/ M_Signal
    \/ \E fail \in OpenFailures : A_Setup(fail)
    \/ A_Check
    \/ \E o \in RecvOutcomes : A_Recv(o)
    \/ A_Continue
    \/ A_Load
    \/ \E due \in BOOLEAN : Emit(due)
    \/ A_Status
    \/ A_StopFrontEnd
    \/ S_Poll
    \/ A_Join

SpecMain == InitMain /\ [][NextMain]_vars

\* ---------------------------------------------------------------- SpecFft
\* The power-spectrum loop of one cycle (lines 655-667), for every FFT size
\* the command line may give.
\* Line 657: the FFT bin that output bin i is computed from; fft_size/2 is
\* the division of two size_t.
ShiftedBin(i, n) == (i + n \div 2) % n

\* The frequency offset, in bins from the tuned center, of bin j of a forward
\* DFT of n points as FFTW lays its output out (lines 576, 649): bins 0 ..
\* up to half hold the offsets 0, 1, 2, ...; the rest hold -.., -2, -1.
BinOffset(j, n) == IF 2 * j < n THEN j ELSE j - n

\* Lines 655-661: one iteration, filling power_db[i] from FFT bin j.
F_Shift ==
    /\ apc = "emit"
    /\ bin_i < fft_size
    /\ power_db' = Append(power_db, ShiftedBin(bin_i, fft_size))
    /\ bin_i' = bin_i + 1
    /\ UNCHANGED <<fft_size, shm_mode, curr_freq, emitted, freq_held, plans>>
    /\ UNCHANGED <<stop_signal_called, current_frequency, rx_streaming,
                   frames_at_stop, apc>>
    /\ UNCHANGED <<srvVars, ringAll, wrVars, recVars>>

\* A full block has arrived and its FFT was executed (line 649).
InitFft ==
    /\ RingUnused
    /\ WriterInit
    /\ ProcessInit
    /\ apc = "emit"
    /\ shm_mode = FALSE
    /\ fft_size \in 1 .. MaxFftSize
    /\ bin_i = 0
    /\ power_db = <<>>

NextFft == F_Shift

SpecFft == InitFft /\ [][NextFft]_vars

\* ------------------------------------- iq_recorder: the receive loop, 307-340
\* Line 307: while (!stop_signal_called && samples_received < total_samples),
\* the recording being MaxCycles blocks long.
R_Check ==
    /\ rpc = "check"
    /\ rpc' = IF ~stop_signal_called /\ samples_received < MaxCycles
              THEN "recv" ELSE "draining"
    /\ UNCHANGED <<overflow_count, samples_received>>
    /\ UNCHANGED <<stop_signal_called, current_frequency, rx_streaming, apc,
                   frames_at_stop>>
    /\ UNCHANGED <<srvVars, ringAll, wrVars, acqVars>>

\* Lines 310-323: the branch the recorder's tests take. It has a test for
\* ERROR_CODE_OVERFLOW (314) before the one for ERROR_CODE_NONE (321), and
\* none for the count.
R_AfterRecv(outcome) ==
    CASE outcome = "timeout"  -> "timed_out"
      [] outcome = "overflow" -> "overflowed"
      [] outcome = "error"    -> "rx_error"
      [] OTHER                -> "write"

\* Line 308: recv. The front end reports at most MaxCycles overflows.
R_Recv(outcome) ==
    /\ rpc = "recv"
    /\ outcome = "overflow" => overflow_count < MaxCycles
    /\ rpc' = R_AfterRecv(outcome)
    /\ UNCHANGED <<overflow_count, samples_received>>
    /\ UNCHANGED <<stop_signal_called, current_frequency, rx_streaming, apc,
                   frames_at_stop>>
    /\ UNCHANGED <<srvVars, ringAll, wrVars, acqVars>>

\* Lines 311-312: a timeout is retried; lines 315-319: an overflow is
\* counted and retried; lines 322-323: any other error breaks out of the loop.
R_Skip ==
    /\ rpc \in {"timed_out", "overflowed", "rx_error"}
    /\ overflow_count' = IF rpc = "overflowed" THEN overflow_count + 1
                                               ELSE overflow_count
    /\ rpc' = IF rpc = "rx_error" THEN "draining" ELSE "check"
    /\ UNCHANGED samples_received
    /\ UNCHANGED <<stop_signal_called, current_frequency, rx_streaming, apc,
                   frames_at_stop>>
    /\ UNCHANGED <<srvVars, ringAll, wrVars, acqVars>>

\* Lines 327-328: writer->write(...), samples_received += num_rx_samps. What
\* write() does with the block is SpecWriter's subject.
R_Write ==
    /\ rpc = "write"
    /\ samples_received' = samples_received + 1
    /\ rpc' = "check"
    /\ UNCHANGED overflow_count
    /\ UNCHANGED <<stop_signal_called, current_frequency, rx_streaming, apc,
                   frames_at_stop>>
    /\ UNCHANGED <<srvVars, ringAll, wrVars, acqVars>>

NextRec ==
    \/ Signal
    \/ R_Check
    \/ \E o \in RecvOutcomes : R_Recv(o)
    \/ R_Skip
    \/ R_Write

SpecRec == InitCtl /\ [][NextRec]_vars

\* =================================================== claims about the ring
Lag(c) == write_idx - last_read_idx[c]

\* Publishes begun so far (completed ones plus the one in progress).
PublishesBegun == write_idx + (IF ppc = "idle" THEN 0 ELSE 1)

\* C1: publish never waits on a reader. Whatever the consumers are doing
\* (detached, failed, stalled any distance behind, in the middle of a read),
\* the producer's next step of publish_multi is enabled as long as the
\* acquisition loop has a frame to publish.
C1_PublishNeverWaits ==
    (prod = "open" /\ (ppc # "idle" \/ frame_count < MaxFrames))
        => ENABLED ProducerStep

\* A reader stalled more than a ring behind while the producer is about to
\* store the next write_idx.
C1_Witness ==
    \E c \in Consumers : Attached(c) /\ Lag(c) > RingSize /\ ppc = "store"

\* C2: a consumer never takes a torn frame as valid: the header and the
\* spectrum of every frame it has taken belong to the same published frame.
C2_NoTornFrame ==
    \A c \in Consumers : \A i \in 1 .. Len(got[c]) :
        got[c][i].data = got[c][i].frame_number

\* C3: a consumer attached before the first write sees, while no more than
\* ring_size publishes have begun, frame numbers 0, 1, 2, ... in order,
\* each once, each with its own spectrum, and never more than were published.
C3_SequentialNoGaps ==
    \A c \in Consumers :
        (Attached(c) /\ attach_idx[c] = 0 /\ PublishesBegun <= RingSize)
            => /\ \A i \in 1 .. Len(got[c]) :
                    got[c][i] = [frame_number |-> i - 1, data |-> i - 1]
               /\ Len(got[c]) <= write_idx
               /\ (cpc[c] = "idle" => last_read_idx[c] = Len(got[c]))

\* The consumer has taken all ring_size frames of a full ring.
C3_Witness ==
    \E c \in Consumers :
        /\ attach_idx[c] = 0
        /\ PublishesBegun = RingSize
        /\ Len(got[c]) = RingSize
        /\ cpc[c] = "idle"

\* A try_read call of consumer c: the only step that changes c's state
\* while c is idle.
TryReadStep(c) ==
    /\ cpc[c] = "idle"
    /\ <<cpc[c], ret[c], frame_ptr[c], last_read_idx[c]>>' #
       <<cpc[c], ret[c], frame_ptr[c], last_read_idx[c]>>

\* C4: a try_read that finds the reader more than ring_size behind returns
\* the newest frame (index write_idx - 1), leaves the cursor at write_idx,
\* and reports the skipped frames to its caller.
C4_OverrunReported ==
    [][\A c \in Consumers :
         (TryReadStep(c) /\ Lag(c) > hdr.ring_size)
            => /\ frame_ptr'[c] = SlotOf(write_idx - 1, hdr.ring_size)
               /\ last_read_idx'[c] = write_idx
               /\ drops_reported'[c] =
                     drops_reported[c] + (write_idx - 1 - last_read_idx[c])
      ]_vars

\* C5: with W > ring_size frames written and the producer idle since, a
\* consumer that attached after all of them gets frame W - 1 from its first
\* try_read, together with one reported drop event.
C5_LateAttachReadsLast ==
    \A c \in Consumers :
        (/\ Attached(c)
         /\ attach_idx[c] > RingSize
         /\ write_idx = attach_idx[c]
         /\ ppc = "idle"
         /\ ret[c] # "uncalled")
            => /\ ret[c] = "frame"
               /\ last_read_idx[c] = write_idx
               /\ drops_reported[c] = 1

\* C6: a new consumer's cursor starts at the write_idx of its attach, so
\* nothing it ever takes - header or spectrum - is of a frame published
\* before it attached.
C6_StartsNow ==
    \A c \in Consumers :
        Attached(c)
            => /\ last_read_idx[c] >= attach_idx[c]
               /\ \A i \in 1 .. Len(got[c]) :
                    /\ got[c][i].frame_number >= attach_idx[c]
                    /\ got[c][i].data >= attach_idx[c]

\* A consumer that attached after some publishes has taken a frame.
C6_Witness ==
    \E c \in Consumers : attach_idx[c] > 0 /\ Len(got[c]) > 0

\* C7: try_read answers "no data", cursor untouched, exactly when the cursor
\* equals write_idx; when the reader is at most a ring behind and no publish
\* is in progress it returns the slot holding frame number = cursor and
\* moves the cursor on by one.
C7_TryRead ==
    [][\A c \in Consumers :
         TryReadStep(c)
            => /\ (ret'[c] = "nodata") <=> (last_read_idx[c] = write_idx)
               /\ ret'[c] = "nodata"
                    => /\ last_read_idx'[c] = last_read_idx[c]
                       /\ frame_ptr'[c] = NoFrame
               /\ (Lag(c) > 0 /\ Lag(c) <= hdr.ring_size /\ ppc = "idle")
                    => /\ ret'[c] = "frame"
                       /\ slots[frame_ptr'[c]] =
                            [frame_number |-> last_read_idx[c],
                             data |-> last_read_idx[c]]
                       /\ last_read_idx'[c] = last_read_idx[c] + 1
      ]_vars

\* Both answers have been given: one reader got a frame while a full ring
\* was waiting for it, another was told "no data".
C7_Witness ==
    \E c, d \in Consumers :
        /\ ret[c] = "frame" /\ cpc[c] = "hdr" /\ ppc = "idle"
        /\ Lag(c) = RingSize - 1
        /\ ret[d] = "nodata"

\* ============================================ claims about opening the region
\* C8: a consumer whose constructor finds a region with another magic or
\* another version fails, and its cursor is not loaded from that region.
C8_RejectsMismatch ==
    [][\A c \in Consumers :
         (/\ cpc[c] = "detached"
          /\ cpc'[c] # "detached"
          /\ shm_exists
          /\ (hdr.magic # SHM_MAGIC \/ hdr.version # SHM_VERSION))
            => /\ cpc'[c] = "failed"
               /\ last_read_idx'[c] = last_read_idx[c]
      ]_vars

\* The layout the producer being constructed asks for differs from the one
\* the existing region's header describes.
IncompatibleLayout ==
    \/ hdr.ring_size # p_ring_size'
    \/ hdr.fft_size # p_fft_size'
    \/ hdr.channel_count # p_channel_count'
    \/ hdr.frame_size # FrameSize(p_fft_size', p_channel_count')

\* C9: a producer constructed on an existing region of an incompatible
\* layout fails, and the region keeps its size, its header and its write_idx.
C9_FailFastOnIncompatible ==
    [][(/\ prod = "none"
        /\ prod' # "none"
        /\ shm_exists
        /\ IncompatibleLayout)
            => /\ prod' = "failed"
               /\ shm_size' = shm_size
               /\ hdr' = hdr
               /\ write_idx' = write_idx
      ]_vars

\* ======================================== claims about the AsyncFileWriter
\* The mutex the receiver thread is about to take, if it is at a lock.
WantedByMain ==
    CASE mpc = "w_pop" -> free_mutex
      [] mpc = "w_push" -> queue_mutex
      [] OTHER -> "none"

\* C10: write() never blocks its caller. Inside write() the caller's next
\* step is enabled, except while the writer thread holds the mutex it asks
\* for, and the writer thread never waits while it holds a mutex: its next
\* step is enabled too. The caller itself never waits while holding one.
\* The value returned is between 0 and the request, and is short of the
\* request only when the pool was found empty or the writer was stopped.
C10_WriteNeverBlocks ==
    /\ mpc \in {"w_loop", "w_pop", "w_unlock_free", "w_push", "w_unlock_q",
                "w_notify"}
         => \/ ENABLED WriteStep
            \/ (WantedByMain = "writer" /\ ENABLED WriterStep)
    /\ (free_mutex = "writer" \/ queue_mutex = "writer") => ENABLED WriterStep
    /\ (free_mutex = "main" \/ queue_mutex = "main") => ENABLED WriteStep
    /\ ~(free_mutex = "main" /\ queue_mutex = "main")
    /\ last_return.written >= 0
    /\ last_return.written <= last_return.count
    /\ last_return.written < last_return.count
         => last_return.why \in {"pool_empty", "stopped"}
    /\ last_return.why = "pool_empty" => dropped_blocks > 0

\* A call came back short, with part of its buffer queued, after finding the
\* pool empty while the writer thread had not yet taken anything.
C10_Witness ==
    /\ last_return.why = "pool_empty"
    /\ last_return.written > 0
    /\ last_return.written < last_return.count
    /\ total_written = 0

\* C11: shutdown loses no queued sample. Once the destructor's join has
\* returned, the write queue is empty, no block is left in a thread's hands,
\* and total_written equals the sum of the values write() returned; the file
\* holds exactly that many samples.
C11_ShutdownLosesNothing ==
    mpc = "destroyed"
        => /\ write_queue = <<>>
           /\ t_block = NoBlock
           /\ total_written = queued_total
           /\ Len(file) = queued_total

\* The writer was destroyed after every call was made and more than one
\* block of samples had been queued.
C11_Witness ==
    /\ mpc = "destroyed"
    /\ calls = MaxCalls
    /\ queued_total > BlockSize

\* The steps writer_loop takes by itself: every step but a spurious wake-up,
\* which the condition variable may deliver and need not.
WriterProgress ==
    \/ T_Loop \/ T_Lock \/ T_Pred \/ T_Sleep
    \/ T_Deq \/ T_Write \/ T_Ret \/ T_UnlockFree \/ T_Flush

\* C12: writer shutdown always terminates. While the destructor waits in
\* join, the writer thread has returned or has a step of its own to take:
\* it is never left asleep in wait with nobody left to notify it.
C12_ShutdownTerminates ==
    mpc = "d_join" => (tpc = "t_done" \/ ENABLED WriterProgress)

CeilDiv(a, b) == (a + b - 1) \div b

\* The writer thread has taken nothing from the queue so far: it is stalled.
WriterStalled == total_written = 0 /\ t_block = NoBlock

\* C13: a write() of more samples than the whole pool holds, made while the
\* writer thread is stalled, returns fewer samples than it was given, and
\* dropped_blocks grows over the call by the shortfall counted in blocks
\* (between the shortfall's whole blocks and its blocks rounded up).
C13_DropsCountShortfall ==
    (/\ mpc \in {"m_idle", "d_notify", "d_join", "destroyed"}
     /\ calls > 0
     /\ last_return.count > PoolSize * BlockSize
     /\ WriterStalled)
        => /\ last_return.written < last_return.count
           /\ dropped_blocks - dropped_at_call
                >= (last_return.count - last_return.written) \div BlockSize
           /\ dropped_blocks - dropped_at_call
                <= CeilDiv(last_return.count - last_return.written, BlockSize)

\* How many times block b occurs in queue q.
Occurrences(q, b) == Cardinality({i \in 1 .. Len(q) : q[i] = b})

\* The places that hold block b: the free pool, the write queue, write()'s
\* local and writer_loop's local.
Holders(b) ==
    Occurrences(free_blocks, b) + Occurrences(write_queue, b)
      + (IF m_block = b THEN 1 ELSE 0) + (IF t_block = b THEN 1 ELSE 0)

\* C14: block conservation. Each of the pool's blocks is in exactly one of
\* the free pool, the write queue, the hands of a write() caller and the
\* hands of the writer thread; so the queue never holds more than the pool.
C14_BlockConservation ==
    /\ \A b \in Blocks : Holders(b) = 1
    /\ Len(write_queue) <= PoolSize
    /\ Len(free_blocks) + Len(write_queue) <= PoolSize

\* No block is in either container: the caller holds one, the writer thread
\* the other.
C14_Witness ==
    /\ m_block # NoBlock
    /\ t_block # NoBlock
    /\ free_blocks = <<>>
    /\ write_queue = <<>>

\* ================================== claims about the streamer's control plane
\* The control thread finishes handling cmd in this step.
Handled == srv_pc = "handle" /\ srv_pc' = "send"

\* c is a set command whose value lies outside its capability range.
OutsideCapability(c) ==
    CASE c.type = SET_FREQUENCY ->
           c.value < B210_MIN_FREQ \/ c.value > B210_MAX_FREQ
      [] c.type = SET_GAIN ->
           c.value < B210_MIN_RX_GAIN \/ c.value > B210_MAX_RX_GAIN
      [] c.type = SET_BANDWIDTH ->
           c.value < B210_MIN_BW \/ c.value > B210_MAX_BW
      [] OTHER -> FALSE

\* C15: a set-frequency, set-gain or set-bandwidth command whose value lies
\* outside the capability range gets success = 0, makes no set call on
\* the front end, and leaves the front end and the current-value atomics as
\* they were; the thread goes on to send the response on the connection,
\* which stays open, and returns to its loop for the next command.
C15_OutOfRangeRejected ==
    [][ /\ (Handled /\ OutsideCapability(cmd))
            => /\ resp'.success = 0
               /\ usrp_called' = FALSE
               /\ usrp' = usrp
               /\ current_frequency' = current_frequency
               /\ current_gain' = current_gain
               /\ current_sample_rate' = current_sample_rate
               /\ stop_signal_called' = stop_signal_called
               /\ conn' = conn
        /\ (srv_pc = "send" /\ srv_pc' # "send")
            => /\ srv_pc' = "inner"
               /\ conn' = conn
               /\ Len(replies') = Len(replies) + 1
      ]_vars

\* A frequency one unit below the minimum was refused and answered, and the
\* thread is back at recv on the same connection, where the next command
\* is waiting to be served.
C15_Witness ==
    /\ srv_pc = "recv"
    /\ conn = "open"
    /\ cmd.type = SET_FREQUENCY
    /\ cmd.value = B210_MIN_FREQ - 1
    /\ Len(replies) = 1
    /\ replies[1].for = cmd.seq
    /\ replies[1].success = 0
    /\ inbox # <<>>
    /\ current_frequency = DefaultFreq
    /\ usrp.rx_freq = DefaultFreq

\* c is a set command whose value is exactly a bound of its range.
AtBoundary(c) ==
    CASE c.type = SET_FREQUENCY -> c.value \in {B210_MIN_FREQ, B210_MAX_FREQ}
      [] c.type = SET_GAIN -> c.value \in {B210_MIN_RX_GAIN, B210_MAX_RX_GAIN}
      [] c.type = SET_BANDWIDTH -> c.value \in {B210_MIN_BW, B210_MAX_BW}
      [] OTHER -> FALSE

\* C16: range checks are inclusive at both ends. A set command whose value
\* is exactly the minimum or the maximum of its range passes the check: the
\* front end is called with it, and, the front end's calls having returned,
\* the response carries success = 1 and the value the front end reports,
\* and the atomic of the setting (frequency, gain) holds that same value.
C16_BoundsInclusive ==
    [][ (Handled /\ AtBoundary(cmd))
           => /\ usrp_called' = TRUE
              /\ resp'.message # "Error"
                   => /\ resp'.success = 1
                      /\ cmd.type = SET_FREQUENCY
                           => /\ usrp'.rx_freq = resp'.actual_value
                              /\ current_frequency' = resp'.actual_value
                      /\ cmd.type = SET_GAIN
                           => /\ usrp'.rx_gain = resp'.actual_value
                              /\ current_gain' = resp'.actual_value
                      /\ cmd.type = SET_BANDWIDTH
                           => usrp'.rx_bandwidth = resp'.actual_value
      ]_vars

\* The maximum frequency was accepted; the front end tuned next to it and
\* the atomic holds what the front end reported, not what was asked.
C16_Witness ==
    /\ srv_pc = "send"
    /\ cmd.type = SET_FREQUENCY
    /\ cmd.value = B210_MAX_FREQ
    /\ resp.success = 1
    /\ resp.actual_value # cmd.value
    /\ usrp.rx_freq = resp.actual_value
    /\ current_frequency = resp.actual_value

\* C17: set-sample-rate is handled like the other set commands. A value in
\* the sample-rate range is applied to the front end, and, the front end's
\* calls having returned, the response carries success = 1 and the
\* current-sample-rate atomic holds the rate the front end reports.
C17_SetSampleRateSupported ==
    [][ (Handled /\ cmd.type = SET_SAMPLE_RATE
           /\ cmd.value \in SampleRateValues)
           => /\ usrp_called' = TRUE
              /\ resp'.message # "Error"
                   => /\ resp'.success = 1
                      /\ usrp'.rx_rate = resp'.actual_value
                      /\ current_sample_rate' = resp'.actual_value
      ]_vars

\* C18: after a STOP command is processed or a stop signal arrives the stop
\* flag is set, and once set it stays set; the acquisition loop emits no
\* frame beyond the one of the cycle in progress; the front end is told to
\* stop only after the loop has left Streaming, and it eventually is.
C18_StopLeavesStreaming ==
    /\ [][ /\ stop_signal_called => stop_signal_called'
           /\ (Handled /\ cmd.type = STOP) => stop_signal_called'
         ]_vars
    /\ [](stop_signal_called => frame_count <= frames_at_stop + 1)
    /\ [](~rx_streaming
            => stop_signal_called /\ apc \in {"cleanup", "stopped"})
    /\ (stop_signal_called ~> ~rx_streaming)

\* A STOP command arrived in the middle of a cycle: that cycle's frame was
\* emitted, then the loop left and the front end was stopped.
C18_Witness ==
    /\ ~rx_streaming
    /\ frames_at_stop >= 0
    /\ frame_count = frames_at_stop + 1
    /\ cmd.type = STOP
    /\ Len(replies) > 0
    /\ replies[Len(replies)].for = cmd.seq

\* C19: once the stop flag is set the control thread terminates: until it
\* has returned it always has a step it can take by itself, whatever its
\* client does or does not send.
C19_ControlThreadTerminates ==
    (stop_signal_called /\ srv_pc # "done") => ENABLED ControlStep

\* C20: within a connection commands are handled one at a time. Every
\* request read whole has exactly one response, or is the one being handled;
\* a request is read only when all earlier ones are answered; responses
\* come in the order of the requests.
C20_OneAtATime ==
    /\ Len(reqs_read) - Len(replies) \in {0, 1}
    /\ srv_pc \in {"handle", "send"} <=> Len(reqs_read) = Len(replies) + 1
    /\ \A i \in 1 .. Len(replies) : replies[i].for = reqs_read[i]
    /\ \A i \in 1 .. Len(reqs_read) - 1 : reqs_read[i] < reqs_read[i + 1]
    /\ srv_pc \in {"handle", "send"} => cmd.seq = reqs_read[Len(reqs_read)]

\* Two requests were waiting at once on one connection; the first, refused,
\* and the second were answered in turn and the thread is back at recv.
C20_Witness ==
    /\ srv_pc = "recv"
    /\ conn = "open"
    /\ Len(replies) = 2
    /\ replies[1].success = 0
    /\ replies[2].success = 1

\* ====================================== claims about the acquisition loop
\* The loop is inside its body: between the loop test and the next one.
InLoopBody == apc \in {"recv", "emit", "publish", "status"} \cup Skipped

\* C21: in Streaming a fetch that times out, or that comes back with fewer
\* samples than the FFT size, is not fatal. No frame is emitted for that
\* cycle and the frame counter keeps its value; the loop goes back to its
\* test and, unless a stop was requested meanwhile, fetches again.
C21_TimeoutShortRetried ==
    [][ /\ (apc = "recv" /\ apc' \in {"timed_out", "short_block"})
             => emitted' = emitted /\ frame_count' = frame_count
        /\ (apc \in {"timed_out", "short_block"} /\ apc' # apc)
             => /\ apc' = "check"
                /\ emitted' = emitted
                /\ frame_count' = frame_count
        /\ (apc = "check" /\ apc' # apc /\ ~stop_signal_called)
             => apc' = "recv"
      ]_vars

\* A frame went out and a later fetch came back short: the loop is in the
\* branch that discards it, with one frame emitted and the counter at one.
C21_Witness ==
    /\ apc = "short_block"
    /\ ~stop_signal_called
    /\ Len(emitted) = 1
    /\ frame_count = 1

\* C22: a hard front-end error (an error code other than timeout and
\* overflow) is fatal in Streaming: the loop handles no further block and
\* goes straight to Draining. Stated for the streamer's loop and for the
\* recorder's.
C22_HardErrorFatal ==
    [][ /\ (apc = "rx_error" /\ apc' # apc) => apc' = "draining"
        /\ (rpc = "rx_error" /\ rpc' # rpc) => rpc' = "draining"
      ]_vars

\* C23: every cycle with a full block emits exactly one frame, and the
\* frames carry the numbers 0, 1, 2, ... in the order they are emitted,
\* whatever the length of the run; cycles that are retried consume no number.
C23_FrameNumbersConsecutive ==
    \A i \in 1 .. Len(emitted) : emitted[i].frame_number = i - 1

\* C24: a frequency change made through the control plane shows in the
\* frames that follow. Each cycle loads the value the atomic holds at that
\* moment (the last one stored), the frame it emits carries the value
\* loaded, and no frame carries a value the atomic never held.
C24_FrequencyReflected ==
    /\ [](/\ current_frequency \in freq_held
          /\ \A i \in 1 .. Len(emitted) : emitted[i].center_freq \in freq_held)
    /\ [][ /\ (apc = "emit" /\ apc' = "publish")
                => curr_freq' = current_frequency
           /\ Len(emitted') > Len(emitted)
                => emitted'[Len(emitted')].center_freq = curr_freq
         ]_vars

\* One frame went out at the start-up frequency, a SET_FREQUENCY stored the
\* upper limit, and the next frame carries it.
C24_Witness ==
    /\ Len(emitted) = 2
    /\ emitted[1].center_freq = DefaultFreq
    /\ emitted[2].center_freq = B210_MAX_FREQ
    /\ current_frequency = B210_MAX_FREQ

\* C25: when shared-memory output is selected and the region cannot be
\* created, sized or mapped, the run is over: the loop body is never
\* entered and no frame is emitted on any sink.
C25_ShmFailureFatal ==
    prod = "failed" => ~InLoopBody /\ emitted = <<>>

\* C26: a hardware overflow report is counted and never fatal: it adds
\* exactly one to the overflow counter, nothing of that fetch is processed,
\* and the loop goes on with the next cycle. Stated for the streamer's loop
\* and for the recorder's.
C26_OverflowCounted ==
    [][ /\ (apc = "overflowed" /\ apc' # apc)
             => /\ overflow_count' = overflow_count + 1
                /\ apc' = "check"
                /\ emitted' = emitted
        /\ (rpc = "overflowed" /\ rpc' # rpc)
             => /\ overflow_count' = overflow_count + 1
                /\ rpc' = "check"
                /\ samples_received' = samples_received
      ]_vars

\* ============================ claims about the ring's close and its index
\* C27: on producer close the streaming flag is cleared before the region is
\* unmapped and unlinked. From the moment the destructor has cleared it the
\* flag stays clear, so a consumer that is still attached is told "not
\* streaming" from then on, and in particular after the unlink.
C27_StreamingClearedFirst ==
    /\ prod \in {"closing", "unmapped", "closed"}
         => /\ hdr.streaming = 0
            /\ \A c \in Consumers : Attached(c) => ~is_streaming
    /\ ~shm_exists => prod = "closed" /\ hdr.streaming = 0

\* The producer is gone and the name unlinked while a consumer that took a
\* frame from it is still attached.
C27_Witness ==
    /\ prod = "closed"
    /\ ~shm_exists
    /\ Attached("c1")
    /\ got["c1"] # <<>>
    /\ ~is_streaming

\* The producer has not begun to publish the frame of index n.
NotBegun(n) == write_idx < n \/ (write_idx = n /\ ppc = "idle")

CompleteFrame(n) == [frame_number |-> n, data |-> n]

\* C28: a slot's header and payload are written before write_idx moves past
\* it. Every index n below write_idx whose slot the producer has not begun
\* to reuse (for frame n + ring_size) holds the whole frame n, and a consumer
\* that was handed that slot and finishes reading it before the reuse begins
\* takes the whole frame n.
C28_PublishOrdering ==
    /\ [](\A n \in 0 .. MaxFrames :
            (n < write_idx /\ NotBegun(n + hdr.ring_size))
              => slots[SlotOf(n, hdr.ring_size)] = CompleteFrame(n))
    /\ [][ \A c \in Consumers :
             (/\ cpc[c] = "data"
              /\ cpc'[c] = "idle"
              /\ NotBegun(last_read_idx[c] - 1 + hdr.ring_size))
               => got'[c][Len(got'[c])] = CompleteFrame(last_read_idx[c] - 1)
         ]_vars

\* A consumer took the whole frame 1 while the producer was in the middle
\* of publishing frame 2 into the other slot.
C28_Witness ==
    /\ ppc = "store"
    /\ p_write_idx = 2
    /\ got["c1"] # <<>>
    /\ got["c1"][Len(got["c1"])] = CompleteFrame(1)
    /\ cpc["c1"] = "idle"
    /\ last_read_idx["c1"] = 2

\* A publish_multi call returns.
PublishReturns == ppc = "store" /\ ppc' = "idle"

\* C29: write_idx starts at 0 and only publish changes it: each publish
\* writes the slot numbered (write_idx before the call) mod ring_size and
\* adds exactly one, so write_idx is the number of publishes made; no
\* consumer operation and nothing else changes it, and it never goes down
\* while the region lives, the producer's close included.
C29_WriteIndexMonotonic ==
    /\ [](write_idx = frame_count)
    /\ [][ /\ write_idx' >= write_idx
           /\ write_idx' # write_idx
                => PublishReturns /\ write_idx' = write_idx + 1
           /\ \A i \in DOMAIN slots :
                slots'[i] # slots[i] => i = write_idx % hdr.ring_size
         ]_vars

\* Three publishes went round the ring of two slots, a consumer read along,
\* and the producer has closed: write_idx is 3.
C29_Witness ==
    /\ write_idx = 3
    /\ slots[0] = CompleteFrame(2)
    /\ slots[1] = CompleteFrame(1)
    /\ got["c1"] # <<>>
    /\ prod = "closed"

\* ================================= claims about the AsyncFileWriter's locks
\* C30: every access to the pending-write queue, emptiness tests included,
\* is made with queue_mutex_ held, and every access to the free list with
\* free_mutex_ held, by the write() caller and by the writer thread alike.
\* The writer thread looks at the queue in its loop test (when running_ is
\* false), in wait's predicate and when it takes a block; the caller when
\* it pushes. The free list is touched by the caller's pop and the writer's
\* push.
C30_QueuesAccessedLocked ==
    [][ /\ (tpc = "t_loop" /\ tpc' # tpc /\ ~running)
             => queue_mutex = "writer"
        /\ (tpc \in {"t_pred", "t_deq"} /\ tpc' # tpc)
             => queue_mutex = "writer"
        /\ (mpc = "w_push" /\ mpc' # mpc) => queue_mutex' = "main"
        /\ write_queue' # write_queue
             => queue_mutex = "writer" \/ queue_mutex' = "main"
        /\ (mpc = "w_pop" /\ mpc' # mpc) => free_mutex' = "main"
        /\ (tpc = "t_ret" /\ tpc' # tpc) => free_mutex' = "writer"
        /\ free_blocks' # free_blocks
             => free_mutex' \in {"main", "writer"}
      ]_vars

\* The mutex a thread is waiting for, if it is at a lock: write() at its two
\* lock_guards, writer_loop at its unique_lock (and the re-lock inside wait)
\* and at its lock_guard.
WantedByWriter ==
    CASE tpc \in {"t_lock", "t_woken"} -> queue_mutex
      [] tpc = "t_ret" -> free_mutex
      [] OTHER -> "none"

\* C31: the writer's two mutexes are never nested. No thread holds both at
\* once; a thread that holds one is not waiting for the other (its next step
\* is enabled); so the write() caller and the writer thread are never each
\* waiting for a mutex the other holds.
C31_LocksNeverNested ==
    /\ ~(free_mutex = "main" /\ queue_mutex = "main")
    /\ ~(free_mutex = "writer" /\ queue_mutex = "writer")
    /\ (free_mutex = "main" \/ queue_mutex = "main") => WantedByMain = "none"
    /\ (free_mutex = "writer" \/ queue_mutex = "writer")
         => WantedByWriter = "none"
    /\ ~(WantedByMain = "writer" /\ WantedByWriter = "main")

\* Each thread holds one of the two mutexes: the caller the free list's,
\* between its pop and its push, the writer thread the queue's, about to
\* take a block.
C31_Witness ==
    /\ free_mutex = "main"
    /\ queue_mutex = "writer"
    /\ m_block # NoBlock
    /\ tpc = "t_deq"
    /\ write_queue # <<>>

\* ============================== claims about the front-end (hardware) handle
\* The control thread makes its set_rx_* / get_rx_* calls in this step.
ControlHardwareCall == Handled /\ usrp_called'

\* The acquisition thread is inside its sensor reads on the handle.
InSensorReads == apc = "status"

\* C32: calls on the hardware handle are serialized. The control thread makes
\* its set/get calls for frequency, gain and bandwidth only when the
\* acquisition thread is not inside its status and temperature sensor reads,
\* so the two threads are never inside a hardware-handle call together.
C32_HardwareCallsSerialized ==
    [][ ControlHardwareCall => ~InSensorReads ]_vars

\* ===================================== claims about the daemon's life cycle
\* The phase main is in at position pc: Idle until the device exists,
\* Configuring until the loop is entered, Streaming inside the loop, Draining
\* from the loop's exit to the join, Stopped once main has returned.
PhaseOf(pc) ==
    CASE pc = "idle" -> "Idle"
      [] pc \in {"configuring", "setup"} -> "Configuring"
      [] pc \in {"check", "recv", "emit", "publish", "status"} \cup Skipped
            -> "Streaming"
      [] pc \in {"draining", "cleanup"} -> "Draining"
      [] OTHER -> "Stopped"

RankOf(pc) ==
    CASE PhaseOf(pc) = "Idle" -> 0
      [] PhaseOf(pc) = "Configuring" -> 1
      [] PhaseOf(pc) = "Streaming" -> 2
      [] PhaseOf(pc) = "Draining" -> 3
      [] OTHER -> 4

\* C33: the phase moves only forward along Idle, Configuring, Streaming,
\* Draining, Stopped. Streaming is entered only with the front end
\* configured and yielding blocks and the FFT plans made; frames are emitted
\* only in Streaming; main does nothing after it has returned.
C33_PhasesForward ==
    /\ [][ /\ RankOf(apc') >= RankOf(apc)
           /\ emitted' # emitted
                => PhaseOf(apc) = "Streaming" /\ PhaseOf(apc') = "Streaming"
           /\ PhaseOf(apc) = "Stopped" => apc' = apc
         ]_vars
    /\ [](PhaseOf(apc) = "Streaming"
            => /\ usrp # NoDevice
               /\ rx_streaming
               /\ plans = "made"
               /\ srv_pc # "unstarted")
    /\ [](PhaseOf(apc) \in {"Idle", "Configuring"} => emitted = <<>>)

\* The whole chain was walked: a frame went out in Streaming, a signal ended
\* the loop, and main has returned.
C33_Witness ==
    /\ apc = "stopped"
    /\ Len(emitted) > 0
    /\ stop_signal_called
    /\ plans = "destroyed"

\* C34: main reports its clean stop only when the front end was told to stop,
\* the FFT plans are released, the ring's producer, if there was one, has
\* cleared streaming and unlinked the name, and the control thread has
\* returned and was joined. For the recorder: its writer is destroyed only
\* when the writer thread has returned with the queue drained.
C34_StoppedAfterShutdowns ==
    /\ apc = "stopped"
         => /\ ~rx_streaming
            /\ plans = "destroyed"
            /\ prod \in {"none", "failed", "closed"}
            /\ prod = "closed" => hdr.streaming = 0
            /\ ~shm_exists
            /\ srv_pc = "done"
    /\ mpc = "destroyed"
         => /\ tpc = "t_done"
            /\ write_queue = <<>>
            /\ ~running

\* A clean stop of a run that published into the ring: the producer is
\* closed, the name unlinked, the control thread done.
C34_Witness ==
    /\ apc = "stopped"
    /\ prod = "closed"
    /\ write_idx > 0
    /\ ~shm_exists
    /\ srv_pc = "done"

\* ============================================ claims about the spectrum
\* The least frequency offset a DFT of n points has a bin for.
MostNegativeOffset(n) ==
    CHOOSE m \in -n .. 0 :
        /\ \E j \in 0 .. n - 1 : BinOffset(j, n) = m
        /\ \A j \in 0 .. n - 1 : BinOffset(j, n) >= m

\* C35: the circular shift takes output bin i from FFT bin (i + N/2) mod N,
\* for every FFT size N and every i; the finished mapping is a bijection on
\* 0 .. N-1; and output bin 0 holds the most negative frequency offset from
\* the tuned center.
C35_ShiftCentersSpectrum ==
    /\ \A k \in 1 .. Len(power_db) :
          power_db[k] = ((k - 1) + fft_size \div 2) % fft_size
    /\ bin_i = fft_size
         => /\ Len(power_db) = fft_size
            /\ {power_db[k] : k \in 1 .. fft_size} = 0 .. fft_size - 1
    /\ bin_i > 0
         => BinOffset(power_db[1], fft_size) = MostNegativeOffset(fft_size)

\* ================================== claims about cursors and frame effects
\* C36: with the single producer, every consumer's cursor is at most
\* write_idx in every state and never decreases; a try_read that returns a
\* frame leaves the cursor one greater than before or, after an overrun,
\* equal to the write_idx it loaded.
C36_CursorBounded ==
    /\ [](\A c \in Consumers : last_read_idx[c] <= write_idx)
    /\ [][ \A c \in Consumers :
             /\ last_read_idx'[c] >= last_read_idx[c]
             /\ (TryReadStep(c) /\ ret'[c] = "frame")
                  => \/ last_read_idx'[c] = last_read_idx[c] + 1
                     \/ (Lag(c) > hdr.ring_size /\ last_read_idx'[c] = write_idx)
             /\ (TryReadStep(c) /\ ret'[c] = "nodata")
                  => last_read_idx'[c] = last_read_idx[c]
         ]_vars

\* A reader attached at 0 let three frames go by and was fast-forwarded by
\* its first try_read: its cursor jumped from 0 to write_idx.
C36_Witness ==
    \E c \in Consumers :
        /\ attach_idx[c] = 0
        /\ got[c] = <<>>
        /\ ret[c] = "frame"
        /\ write_idx = RingSize + 1
        /\ last_read_idx[c] = write_idx

\* What consumer c owns: its cursor, what try_read returned to it, what its
\* caller copied.
ConsumerState(c) ==
    <<cpc[c], last_read_idx[c], ret[c], frame_ptr[c], rd_fn[c], got[c],
      attach_idx[c], drops_reported[c]>>

\* A step of publish_multi.
PublishStep == ppc' # ppc

C38_BoundaryNotSkipped ==
    [][ \A c \in Consumers :
          /\ (TryReadStep(c) /\ Lag(c) = hdr.ring_size)
               => /\ ret'[c] = "frame"
                  /\ frame_ptr'[c] = last_read_idx[c] % hdr.ring_size
                  /\ last_read_idx'[c] = last_read_idx[c] + 1
                  /\ ppc = "idle"
                       => slots[frame_ptr'[c]] = CompleteFrame(last_read_idx[c])
          /\ (TryReadStep(c) /\ last_read_idx'[c] > last_read_idx[c] + 1)
               => Lag(c) > hdr.ring_size
      ]_vars

\* A reader attached at 0 waited until the ring was exactly full, with the
\* producer idle, and was handed slot 0, the oldest frame.
C38_Witness ==
    \E c \in Consumers :
        /\ attach_idx[c] = 0
        /\ write_idx = RingSize
        /\ ppc = "idle"
        /\ cpc[c] = "hdr"
        /\ got[c] = <<>>
        /\ frame_ptr[c] = 0
        /\ last_read_idx[c] = 1

\* ================================ claims about the order of the recording
RECURSIVE Flatten(_)
\* The samples held by the blocks of queue q, in queue order.
Flatten(q) == IF q = <<>> THEN <<>> ELSE blk[Head(q)] \o Flatten(Tail(q))

\* The samples write() has accepted and the file does not hold yet, oldest
\* first: the block the writer thread took and has not written, the blocks
\* of the write queue, the block write() has filled and not pushed.
InFlight ==
    (IF tpc = "t_write" THEN blk[t_block] ELSE <<>>)
      \o Flatten(write_queue)
      \o (IF mpc = "w_push" THEN blk[m_block] ELSE <<>>)

\* Every sample accepted so far, in the order it will have in the file.
Accepted == file \o InFlight

\* The samples the write() call in progress has accepted so far.
InCall ==
    IF mpc \in {"w_loop", "w_pop", "w_unlock_free", "w_push", "w_unlock_q",
                "w_notify"}
    THEN written ELSE 0

\* C39: the file preserves the order of the write() calls. The file followed
\* by the blocks on their way to it is always the concatenation, in call
\* order, of the prefixes write() accepted: that sequence only ever grows,
\* at its end, by the next samples of the caller's current buffer, it holds as
\* many samples as write() has reported queued, and the writer thread moves
\* samples from its head into the file without reordering them. Dropped
\* samples are simply absent.
C39_FileKeepsOrder ==
    /\ [](Len(Accepted) = queued_total + InCall)
    /\ [](\A k \in 1 .. Len(Accepted) - 1 : Accepted[k] < Accepted[k + 1])
    /\ [][ \/ Accepted' = Accepted
           \/ /\ mpc = "w_unlock_free"
              /\ written' > written
              /\ Accepted' = Accepted
                    \o Samples(next_sample + written, written' - written)
         ]_vars
    /\ [][ file' # file
             => file' = SubSeq(Accepted, 1, Len(file')) ]_vars

\* Two calls were made; the first lost its last sample to a full pool, the
\* second was queued whole, and the file holds both prefixes with the
\* dropped sample missing between them.
C39_Witness ==
    /\ calls = MaxCalls
    /\ mpc = "m_idle"
    /\ dropped_blocks > 0
    /\ InFlight = <<>>
    /\ Len(file) = queued_total
    /\ Len(file) > BlockSize
    /\ file[Len(file)] > Len(file) - 1
    /\ last_return.written = last_return.count

\* ============================== claims about errors in the control thread
\* The command types the switch of lines 229-298 has a case for.
HandledTypes ==
    {SET_FREQUENCY, SET_GAIN, SET_BANDWIDTH, GET_STATUS, PING, STOP}

\* The front end raised while cmd, an in-range set command, was handled: the
\* catch clause of lines 299-303 wrote the response.
HardwareRaised == Handled /\ resp'.message = "Error"

\* C40: when the hardware call of an in-range set command raises, the
\* response has success = 0 and the current-value atomics keep their values;
\* a command of a type the switch does not know gets success = 0 with no
\* call on the front end and no atomic changed. In both cases the response is
\* sent, the connection stays open and the thread goes back to read the next
\* command.
C40_ErrorsAnswered ==
    [][ /\ HardwareRaised
             => /\ cmd.type \in {SET_FREQUENCY, SET_GAIN, SET_BANDWIDTH}
                /\ ~OutsideCapability(cmd)
                /\ resp'.success = 0
                /\ current_frequency' = current_frequency
                /\ current_gain' = current_gain
                /\ current_sample_rate' = current_sample_rate
                /\ stop_signal_called' = stop_signal_called
                /\ conn' = conn
        /\ (Handled /\ cmd.type \notin HandledTypes)
             => /\ resp'.success = 0
                /\ usrp_called' = FALSE
                /\ usrp' = usrp
                /\ current_frequency' = current_frequency
                /\ current_gain' = current_gain
                /\ current_sample_rate' = current_sample_rate
                /\ stop_signal_called' = stop_signal_called
                /\ conn' = conn
        /\ (srv_pc = "send" /\ srv_pc' # srv_pc /\ resp.success = 0)
             => /\ replies' = Append(replies, [for |-> cmd.seq, success |-> 0])
                /\ conn' = conn
                /\ inbox' = inbox
                /\ srv_pc' = "inner"
        /\ (srv_pc = "inner" /\ srv_pc' # srv_pc /\ ~stop_signal_called)
             => srv_pc' = "recv" /\ conn' = conn
      ]_vars

\* set_rx_gain went through and get_rx_gain raised: the front end has the
\* new gain, the atomic the old one, the failure was answered, and the
\* thread is back at recv on the same connection with the next command
\* waiting.
C40_Witness ==
    /\ srv_pc = "recv"
    /\ conn = "open"
    /\ cmd.type = SET_GAIN
    /\ usrp.rx_gain # DefaultGain
    /\ current_gain = DefaultGain
    /\ Len(replies) = 1
    /\ replies[1] = [for |-> cmd.seq, success |-> 0]
    /\ inbox # <<>>

====
